---- MODULE Spec2Model ----
(***************************************************************************)
(* Acquisition pipeline of y2tubex: the request handlers that create and   *)
(* write progress records (handleDownload, handleDownloadSubtitle,         *)
(* downloadSubtitleWithYtdlCore), the in-memory progress store             *)
(* (downloadProgress) and the server-sent-events endpoint that polls it.   *)
(*                                                                         *)
(* One behaviour runs one deployment: `impl` names the handler file that   *)
(* the server has loaded.  A request's downloadId is a fresh uuid, so the  *)
(* request slot r is its own downloadId.  Every action is one run of the   *)
(* event loop: the code between two awaits / event callbacks.              *)
(*                                                                         *)
(* The state space is explored in two scenarios: "streams" (one request,  *)
(* up to MaxConn progress streams and the cancel endpoint) and "requests"  *)
(* (up to MaxReq concurrent requests, no stream).  The endpoint only ever  *)
(* touches the store entry of its own downloadId.                          *)
(*                                                                         *)
(* File-system and stream calls are modelled by their effect on the file   *)
(* they name, with failure as one possible outcome.  The timestamp         *)
(* lastUpdate of a record is not modelled (nothing reads it).              *)
(***************************************************************************)
EXTENDS Integers, Sequences, FiniteSets, TLC

\* ---------------------------------------------------------------- bounds
MaxReq == 2
MaxConn == 2
MaxKey == 1
MaxTempReq == 2
MaxTitle == 2
MaxLang == 2
MaxFmt == 2
MaxClock == 13
MaxBytes == 4
MaxCues == 3
MaxFormats == 3
MaxSame == 2

Reqs == 1..MaxReq
Conns == 1..MaxConn
Keys == 1..MaxKey

\* handler implementations found in the repository
Impls == {"vd", "cfg", "sub0", "sub1", "core"}
MediaImpls == {"vd", "cfg"}

\* percentages of a transfer at which a progress event is sampled
Fractions == {50, 100}

Scenarios == {"streams", "requests"}

VARIABLES scen, impl, pc, key, resp, strat, invoked, retries,
          downloadProgress, activeSubtitleRequests, file, conn, cancelled

\* history of a request: how the resolution of its source ended, and what
\* each strategy that has returned reported
VARIABLES entry, results

\* state of one run of a retry helper (fetchWithRetry, downloadSubtitleWithRetry,
\* downloadMediaWithYtdlCore): positions, loop counters, and the history of
\* the calls made, the delays waited and the streams left alive
VARIABLES helper, hpc, fpc, fargs, i, attempt, ua, calls, delays, live

mainVars == <<scen, impl, pc, key, resp, strat, invoked, retries,
              downloadProgress, activeSubtitleRequests, file, conn, cancelled,
              entry, results>>

retryVars == <<helper, hpc, fpc, fargs, i, attempt, ua, calls, delays, live>>

\* requests that use a temp file at the same time: the code that names the
\* file, each request's position and key, the files, what each request read,
\* how its tool ended and how its post-processing (FFmpeg) ended
VARIABLES tcode, tpc, tkey, tmp, got, tout, post

tempVars == <<tcode, tpc, tkey, tmp, got, tout, post>>

\* a directory that cleanFolder keeps: the modification times of its files,
\* the clock, and each request's position (before or after its cleanFolder)
VARIABLES dir, clock, epc

evictVars == <<dir, clock, epc>>

\* the last progress value a handler computed and stored, in tenths of a
\* percent (45.3 is 453), and the code that computed it
VARIABLES wsrc, written

progVars == <<wsrc, written>>

\* one subtitle request and the captions of its source: the handler, its
\* position, the requested language, the manual and automatic caption
\* languages the source offers, and the record or answer the request ended with
VARIABLES lcode, lpc, want, manual, auto, lrec

langVars == <<lcode, lpc, want, manual, auto, lrec>>

\* one application of a subtitle text function: the cues of the input, the
\* function applied, the sequence numbers an SRT conversion emitted, the text
\* a cleanup or serialization produced, the cues read back from it, and how
\* the request that converted the text ended
VARIABLES cues, cfn, nums, doc, back, cend

cueVars == <<cues, cfn, nums, doc, back, cend>>

\* one format selection: the formats ytdl.getInfo has listed, the requested
\* quality and type, the code that selects, and the format it selected
VARIABLES fmts, fquality, ftype, fcode, fsel

fmtVars == <<fmts, fquality, ftype, fcode, fsel>>

\* requests for one output file name: the handler, each request's position
\* and answer, and the file at the final output path
VARIABLES xcode, xpc, xans, xout

existVars == <<xcode, xpc, xans, xout>>

helperVars == <<retryVars, tempVars, evictVars, progVars, langVars, cueVars, fmtVars, existVars>>

vars == <<mainVars, helperVars>>

reqVars == <<pc, key, resp, strat, invoked, retries, entry, results>>

\* ---------------------------------------------------------------- records
\* `by` is a history field: the strategy that was running when the record was written
\* `reason` tells whose failure reason an error text carries: strategy n, the
\* resolution of the source (-1), or none of them (0)
Rec(p, e, u, s) ==
    [progress |-> p, error |-> e, url |-> u, stage |-> s, by |-> 0, reason |-> 0]
NoRec == Rec(-1, FALSE, FALSE, "absent")

\* Math.round(f/100 * scale) for a fraction f given in percent
Round(f, scale) == (f * scale + 50) \div 100

\* downloadProgressMap.set(downloadId, {...}): the record is replaced whole
MapSet(id, rec) == [downloadProgress EXCEPT ![id] = [rec EXCEPT !.by = strat[id]]]

\* the record the spread of updateDownloadProgress builds: e and u tell whether
\* the update carries an error text or a downloadUrl (no update resets either)
MergedRecord(old, p, e, u, s) ==
    IF old = NoRec THEN Rec(p, e, u, s)
    ELSE Rec(p, old.error \/ e, old.url \/ u, s)

updateDownloadProgress(id, p, e, u, s) ==
    [downloadProgress EXCEPT ![id] =
        [MergedRecord(downloadProgress[id], p, e, u, s) EXCEPT !.by = strat[id]]]

getDownloadProgress(id) == downloadProgress[id]

removeDownloadProgress(id) == [downloadProgress EXCEPT ![id] = NoRec]

\* the endpoint's test for "this was the last record"
EndpointTerminal(rec) == rec.progress = 100 \/ rec.error

\* terminal states of a ProgressRecord
IsCompleted(rec) == rec # NoRec /\ rec.url /\ rec.progress = 100
IsError(rec) == rec # NoRec /\ rec.error /\ rec.stage # "retrying"
IsTerminal(rec) == IsCompleted(rec) \/ IsError(rec)

ErrorRec == Rec(0, TRUE, FALSE, "none")
ErrorRecFor(n) == [ErrorRec EXCEPT !.reason = n]
DoneRec == Rec(100, FALSE, TRUE, "none")
StartRec == Rec(0, FALSE, FALSE, "none")
ProgRec(p) == Rec(p, FALSE, FALSE, "none")

\* a connection: st is the state of the response, timer the setInterval handle,
\* last the last record the client received, wae whether res.write ran after res.end
FreeConn == [st |-> "free", id |-> 0, timer |-> FALSE, last |-> NoRec, wae |-> FALSE]

\* ---------------------------------------------------------------- retry helpers: constants
Helpers == {"fetchWithRetry", "downloadSubtitleWithRetry", "downloadMediaWithYtdlCore"}

\* the calls the helpers repeat
Ops == {"axios", "getInfo", "ytDlp", "getYTSubtitles", "ytdl"}

\* the retry loops that wait between two tries
Loops == {"fetchWithRetry", "downloadSubtitleWithRetry", "userAgents", "downloadMediaWithYtdlCore"}

\* fetchWithRetry(url, options, retries = 5, delay = 2000) and its calls with (3, 2000)
DefaultFetchArgs == [retries |-> 5, delay |-> 2000]
CaptionFetchArgs == [retries |-> 3, delay |-> 2000]

\* downloadSubtitleWithRetry(url, language, isAuto = false, retries = 3)
SubtitleRetries == 3

\* downloadMediaWithYtdlCore: maxRetries and the length of userAgents
MediaMaxRetries == 3
NumUserAgents == 5

Min(a, b) == IF a < b THEN a ELSE b

RECURSIVE Pow2(_)
Pow2(n) == IF n = 0 THEN 1 ELSE 2 * Pow2(n - 1)

\* Math.min(1000 * Math.pow(2, attempt), 10000)
SubtitleBackoff(n) == Min(1000 * Pow2(n), 10000)

\* no helper is running
RetryIdle ==
    /\ helper = "none"
    /\ hpc = "off"
    /\ fpc = "off"
    /\ fargs = DefaultFetchArgs
    /\ i = 0
    /\ attempt = 0
    /\ ua = 0
    /\ calls = [op \in Ops |-> 0]
    /\ delays = [l \in Loops |-> << >>]
    /\ live = 0

\* ---------------------------------------------------------------- temp files: constants
TempReqs == 1..MaxTempReq

\* code that writes a temp file, reads it back and deletes it: the yt-dlp step
\* of handleDownloadSubtitle and of downloadSubtitleWithRetry, and the
\* ytdl-core video stream of handleDownload
TempCodes == {"handleDownloadSubtitle", "downloadSubtitleWithRetry", "handleDownload"}

\* a key is <<source (its sanitized title), language, format or quality>>
TempKeys == (1..MaxTitle) \X (1..MaxLang) \X (1..MaxFmt)
NoKey == <<0, 0, 0>>

\* contents of a file (what it was made from), no file, and a failed read
NoFile == <<0, 0, 0>>
ReadError == <<-1, -1, -1>>

\* a file that createWriteStream opened and the stream did not complete
PartialFile == <<-2, -2, -2>>

\* the temp path each code builds:
\* temp/${sanitizedTitle}.${language}.vtt, temp/subtitle_${language}.vtt,
\* downloads/${sanitizedTitle}_video.mp4
TempPath(code, k) ==
    CASE code = "handleDownloadSubtitle" -> <<k[1], k[2]>>
      [] code = "downloadSubtitleWithRetry" -> <<0, k[2]>>
      [] OTHER -> <<k[1], 0>>

TempPaths == (0..MaxTitle) \X (0..MaxLang)

\* what the tool writes for key k: subtitles depend on source and language,
\* a video stream on source and quality
Content(code, k) ==
    IF code = "handleDownload" THEN <<k[1], 0, k[3]>> ELSE <<k[1], k[2], 0>>

\* no request uses a temp file
TempIdle ==
    /\ tcode = "none"
    /\ tpc = [r \in TempReqs |-> "idle"]
    /\ tkey = [r \in TempReqs |-> NoKey]
    /\ tmp = [p \in TempPaths |-> NoFile]
    /\ got = [r \in TempReqs |-> NoFile]
    /\ tout = [r \in TempReqs |-> "none"]
    /\ post = [r \in TempReqs |-> "none"]

\* ---------------------------------------------------------------- cleanFolder: constants
\* cleanFolder(folderPath, maxFiles = 10); every caller uses the default
MaxFiles == 10

\* no request has started, the directory is empty
EvictIdle ==
    /\ dir = {}
    /\ clock = 0
    /\ epc = [r \in TempReqs |-> "idle"]

\* ---------------------------------------------------------------- progress values: constants
\* no progress value has been computed
ProgIdle ==
    /\ wsrc = "none"
    /\ written = -1

\* ---------------------------------------------------------------- subtitle languages: constants
\* language codes; English, the fallback of the node-youtube-subtitles
\* strategy, is language 1
Langs == 1..MaxLang
English == 1

\* the handlers of a subtitle request
LangCodes == {"part_000", "subtitleDownloader", "server"}

\* what a request ended with: a record of the store (error or completed) or
\* an HTTP answer; the kind of its text; the languages the text or the answer
\* lists; the language of the subtitles delivered
Outcome(kind, text, langs, lang) ==
    [kind |-> kind, text |-> text, langs |-> langs, lang |-> lang]
NoOutcome == Outcome("none", "none", {}, 0)

\* no subtitle request has been made
LangIdle ==
    /\ lcode = "none"
    /\ lpc = "idle"
    /\ want = 0
    /\ manual = {}
    /\ auto = {}
    /\ lrec = NoOutcome

\* ---------------------------------------------------------------- subtitle text: constants
\* no function has been applied
CueIdle ==
    /\ cues = << >>
    /\ cfn = "none"
    /\ nums = << >>
    /\ doc = << >>
    /\ back = << >>
    /\ cend = [format |-> "none", rec |-> "none", file |-> FALSE]

\* ---------------------------------------------------------------- format selection: constants
\* no selection has been made
FmtIdle ==
    /\ fmts = << >>
    /\ fquality = "none"
    /\ ftype = "none"
    /\ fcode = "none"
    /\ fsel = 0

\* ---------------------------------------------------------------- existing artifact: constants
SameReqs == 1..MaxSame

\* no file at the final output path
NoOut == [w |-> 0, st |-> "absent"]

ExistIdle ==
    /\ xcode = "none"
    /\ xpc = [r \in SameReqs |-> "idle"]
    /\ xans = [r \in SameReqs |-> "none"]
    /\ xout = NoOut

\* ---------------------------------------------------------------- initial state
Init ==
    /\ scen \in Scenarios
    /\ impl \in Impls
    /\ pc = [r \in Reqs |-> "idle"]
    /\ key = [r \in Reqs |-> 0]
    /\ resp = [r \in Reqs |-> "none"]
    /\ strat = [r \in Reqs |-> 0]
    /\ invoked = [r \in Reqs |-> 0]
    /\ retries = [r \in Reqs |-> 0]
    /\ downloadProgress = [r \in Reqs |-> NoRec]
    /\ activeSubtitleRequests = {}
    /\ file = [k \in Keys |-> "absent"]
    /\ conn = [c \in Conns |-> FreeConn]
    /\ cancelled = {}
    /\ entry = [r \in Reqs |-> "none"]
    /\ results = [r \in Reqs |-> << >>]
    /\ RetryIdle
    /\ TempIdle
    /\ EvictIdle
    /\ ProgIdle
    /\ LangIdle
    /\ CueIdle
    /\ FmtIdle
    /\ ExistIdle

\* request slots are taken in order (downloadIds are interchangeable)
CanSubmit(r) ==
    /\ pc[r] = "idle"
    /\ IF r = 1 THEN TRUE ELSE scen = "requests" /\ pc[r - 1] # "idle"

Goto(r, l) == pc' = [pc EXCEPT ![r] = l]
Respond(r, x) == resp' = [resp EXCEPT ![r] = x]
\* how the resolution of the source of r ended: "malformed", "unavailable" or "resolved"
Resolved(r, how) == entry' = [entry EXCEPT ![r] = how]

Invoke(r, n) ==
    /\ strat' = [strat EXCEPT ![r] = n]
    /\ invoked' = [invoked EXCEPT ![r] = @ + 1]

\* what a strategy reports: the specification's outcomes, as far as the code
\* can end differently on them (a failure after retries ends as NotAvailable does)
FailureKinds == {"NotAvailable", "Fatal"}
Returned(r, result) == results' = [results EXCEPT ![r] = Append(@, result)]

\* number of strategies each handler tries in turn
NumStrategies(im) ==
    CASE im = "sub0" -> 4
      [] im = "sub1" -> 3
      [] OTHER -> 2

\* the strategy that always takes the next turn, whatever strategy n reported
NextStrategyAlways(im, n, result) ==
    IF n < NumStrategies(im) THEN n + 1 ELSE 0

\* the strategy the handler invokes after strategy n has reported (0: none):
\* the `if (!subtitleContent)` chain and the catch around yt-dlp
NextStrategy(im, n, result) ==
    IF result # "Success" /\ n < NumStrategies(im) THEN n + 1 ELSE 0

\* strategies whose failure reaches the handler as an exception (the others
\* catch everything and return null)
Throws(im, n) == im = "sub0" /\ n = 1

\* the strategy whose reason the message after the last strategy names:
\* downloadError of part_000, none in the fixed texts of the other handlers
RECURSIVE LastThrown(_, _)
LastThrown(im, res) ==
    IF res = << >> THEN 0
    ELSE IF Throws(im, Len(res)) /\ res[Len(res)] # "Success" THEN Len(res)
         ELSE LastThrown(im, SubSeq(res, 1, Len(res) - 1))

\* names of the subtitle strategies in the order the handler tries them
StrategyOrder(im) ==
    IF im = "sub0"
    THEN <<"ytdl-core", "yt-dlp", "node-youtube-subtitles", "youtube-api">>
    ELSE <<"yt-dlp", "ytdl-core", "node-youtube-subtitles">>

\* ---------------------------------------------------------------- media requests
\* handleDownload throws before a record exists: missing fields, rate limit, no FFmpeg
handleDownloadRejected(r) ==
    /\ impl \in MediaImpls
    /\ CanSubmit(r)
    /\ Goto(r, "done")
    /\ Respond(r, "err")
    /\ UNCHANGED <<scen, impl, key, strat, invoked, retries, downloadProgress,
                   activeSubtitleRequests, file, conn, cancelled>>
    /\ UNCHANGED <<entry, results>>
    /\ UNCHANGED helperVars

\* handleDownload up to its first await after the record is created
handleDownload(r) ==
    /\ impl \in MediaImpls
    /\ CanSubmit(r)
    /\ \E k \in Keys, platform \in {"youtube", "other"}, validUrl \in BOOLEAN :
         /\ key' = [key EXCEPT ![r] = k]
         /\ downloadProgress' = MapSet(r, StartRec)
         /\ IF platform # "youtube"
            THEN Goto(r, "rapid") /\ UNCHANGED <<resp, entry>>
            ELSE IF ~validUrl
                 THEN Goto(r, "done") /\ Respond(r, "err") /\ Resolved(r, "malformed")
                 ELSE Goto(r, "avail") /\ UNCHANGED <<resp, entry>>
    /\ UNCHANGED <<scen, impl, strat, invoked, retries, activeSubtitleRequests, file, conn, cancelled>>
    /\ UNCHANGED results
    /\ UNCHANGED helperVars

\* non-YouTube platforms: the aggregator API answers in the HTTP response
handleDownloadRapidAPI(r) ==
    /\ pc[r] = "rapid"
    /\ \E answer \in {"url", "err"} : Respond(r, answer)
    /\ Goto(r, "done")
    /\ UNCHANGED <<scen, impl, key, strat, invoked, retries, downloadProgress,
                   activeSubtitleRequests, file, conn, cancelled>>
    /\ UNCHANGED <<entry, results>>
    /\ UNCHANGED helperVars

\* a handler that goes on whatever checkVideoAvailability has answered
handleDownloadAvailabilityIgnored(r) ==
    /\ impl \in MediaImpls
    /\ pc[r] = "avail"
    /\ \E isAvailable \in BOOLEAN :
         /\ Goto(r, "exists")
         /\ Resolved(r, IF isAvailable THEN "resolved" ELSE "unavailable")
    /\ UNCHANGED <<scen, impl, key, resp, strat, invoked, retries, downloadProgress,
                   activeSubtitleRequests, file, conn, cancelled>>
    /\ UNCHANGED results
    /\ UNCHANGED helperVars

\* checkVideoAvailability has answered
handleDownloadAvailability(r) ==
    /\ impl \in MediaImpls
    /\ pc[r] = "avail"
    /\ \E isAvailable \in BOOLEAN :
         IF isAvailable
         THEN Goto(r, "exists") /\ UNCHANGED resp /\ Resolved(r, "resolved")
         ELSE Goto(r, "done") /\ Respond(r, "err") /\ Resolved(r, "unavailable")
    /\ UNCHANGED <<scen, impl, key, strat, invoked, retries, downloadProgress,
                   activeSubtitleRequests, file, conn, cancelled>>
    /\ UNCHANGED results
    /\ UNCHANGED helperVars

\* cleanFolder, then the check for an existing artifact, then the start of yt-dlp
handleDownloadExisting(r) ==
    /\ impl \in MediaImpls
    /\ pc[r] = "exists"
    /\ \E evicted \in BOOLEAN :
         LET k == key[r]
             found == IF evicted THEN "absent" ELSE file[k]
         IN IF found = "valid"
            THEN /\ downloadProgress' = MapSet(r, DoneRec)
                 /\ Respond(r, "url")
                 /\ Goto(r, "done")
                 /\ UNCHANGED <<file, strat, invoked>>
            ELSE /\ file' = [file EXCEPT ![k] = "absent"]
                 /\ Respond(r, "id")
                 /\ Invoke(r, 1)
                 /\ Goto(r, "ytdlp")
                 /\ UNCHANGED downloadProgress
    /\ UNCHANGED <<scen, impl, key, retries, activeSubtitleRequests, conn, cancelled>>
    /\ UNCHANGED <<entry, results>>
    /\ UNCHANGED helperVars

\* child.stdout 'data' with a decimal percentage in it
ytDlpStdout(r) ==
    /\ impl \in MediaImpls
    /\ pc[r] = "ytdlp"
    /\ \E p \in Fractions : downloadProgress' = MapSet(r, ProgRec(p))
    /\ UNCHANGED <<scen, impl, reqVars, activeSubtitleRequests, file, conn, cancelled>>
    /\ UNCHANGED helperVars

\* child 'close': exit code 0 resolves, any other code falls back to ytdl-core
ytDlpClose(r) ==
    /\ impl \in MediaImpls
    /\ pc[r] = "ytdlp"
    /\ \/ /\ \E out \in {"valid", "invalid", "empty", "absent"} :
               file' = [file EXCEPT ![key[r]] = IF out = "absent" THEN @ ELSE out]
          /\ Returned(r, "Success")
          /\ Goto(r, "verify")
          /\ UNCHANGED <<strat, invoked>>
       \/ /\ \E kind \in FailureKinds :
               /\ Returned(r, kind)
               /\ Invoke(r, NextStrategy(impl, strat[r], kind))
          /\ Goto(r, "select")
          /\ UNCHANGED file
    /\ UNCHANGED <<scen, impl, key, resp, retries, downloadProgress,
                   activeSubtitleRequests, conn, cancelled>>
    /\ UNCHANGED entry
    /\ UNCHANGED helperVars

\* catch (fallbackError): ytdl-core or FFmpeg has failed, one text for every reason
MediaFallbackFails(r) ==
    /\ \E kind \in FailureKinds : Returned(r, kind)
    /\ downloadProgress' = MapSet(r, ErrorRec)
    /\ Goto(r, "done")

\* selectAvailableFormat has answered; the first stream is opened
ytdlCoreSelect(r) ==
    /\ impl \in MediaImpls
    /\ pc[r] = "select"
    /\ \/ MediaFallbackFails(r)
       \/ /\ \E type \in {"video", "audio"} :
               Goto(r, IF type = "video" THEN "fbVideo" ELSE "fbAudioOnly")
          /\ UNCHANGED <<downloadProgress, results>>
    /\ UNCHANGED <<scen, impl, key, resp, strat, invoked, retries,
                   activeSubtitleRequests, file, conn, cancelled>>
    /\ UNCHANGED entry
    /\ UNCHANGED helperVars

\* the progress value each ytdl-core stream reports for a downloaded fraction f
StreamProgress(l, f) ==
    CASE l = "fbVideo" -> Round(f, 50)
      [] l = "fbAudio" -> 50 + Round(f, 50)
      [] OTHER -> Round(f, 100)

StreamLabels == {"fbVideo", "fbAudio", "fbAudioOnly"}

\* stream 'progress'
ytdlCoreProgress(r) ==
    /\ impl \in MediaImpls
    /\ pc[r] \in StreamLabels
    /\ \E f \in Fractions :
         downloadProgress' = MapSet(r, ProgRec(StreamProgress(pc[r], f)))
    /\ UNCHANGED <<scen, impl, reqVars, activeSubtitleRequests, file, conn, cancelled>>
    /\ UNCHANGED helperVars

\* stream 'end' or 'error' (or no byte downloaded)
ytdlCoreStreamEnd(r) ==
    /\ impl \in MediaImpls
    /\ pc[r] \in StreamLabels
    /\ \/ /\ Goto(r, IF pc[r] = "fbVideo" THEN "fbAudio" ELSE "ffmpeg")
          /\ UNCHANGED <<downloadProgress, results>>
       \/ MediaFallbackFails(r)
    /\ UNCHANGED <<scen, impl, key, resp, strat, invoked, retries,
                   activeSubtitleRequests, file, conn, cancelled>>
    /\ UNCHANGED entry
    /\ UNCHANGED helperVars

\* FFmpeg merge (video) or conversion (audio) has ended
ffmpegEnd(r) ==
    /\ impl \in MediaImpls
    /\ pc[r] = "ffmpeg"
    /\ \/ /\ \E out \in {"valid", "invalid", "empty"} :
               file' = [file EXCEPT ![key[r]] = out]
          /\ Returned(r, "Success")
          /\ Goto(r, "verify")
          /\ UNCHANGED downloadProgress
       \/ /\ MediaFallbackFails(r)
          /\ UNCHANGED file
    /\ UNCHANGED <<scen, impl, key, resp, strat, invoked, retries,
                   activeSubtitleRequests, conn, cancelled>>
    /\ UNCHANGED entry
    /\ UNCHANGED helperVars

\* the checks of the produced file, then the completed record
handleDownloadVerify(r) ==
    /\ impl \in MediaImpls
    /\ pc[r] = "verify"
    /\ LET k == key[r] IN
         IF file[k] = "valid"
         THEN /\ downloadProgress' = MapSet(r, DoneRec)
              /\ Goto(r, IF impl = "cfg" THEN "post" ELSE "done")
              /\ UNCHANGED file
         ELSE /\ downloadProgress' = MapSet(r, ErrorRec)
              /\ file' = [file EXCEPT ![k] = "absent"]
              /\ Goto(r, "done")
    /\ UNCHANGED <<scen, impl, key, resp, strat, invoked, retries,
                   activeSubtitleRequests, conn, cancelled>>
    /\ UNCHANGED <<entry, results>>
    /\ UNCHANGED helperVars

\* config.js only: the move of a temp file nothing has written
handleDownloadMoveTemp(r) ==
    /\ impl = "cfg"
    /\ pc[r] = "post"
    /\ downloadProgress' = MapSet(r, ErrorRec)
    /\ Goto(r, "done")
    /\ UNCHANGED <<scen, impl, key, resp, strat, invoked, retries,
                   activeSubtitleRequests, file, conn, cancelled>>
    /\ UNCHANGED <<entry, results>>
    /\ UNCHANGED helperVars

MediaStep(r) ==
    \/ handleDownloadRejected(r)
    \/ handleDownload(r)
    \/ handleDownloadRapidAPI(r)
    \/ handleDownloadAvailability(r)
    \/ handleDownloadExisting(r)
    \/ ytDlpStdout(r)
    \/ ytDlpClose(r)
    \/ ytdlCoreSelect(r)
    \/ ytdlCoreProgress(r)
    \/ ytdlCoreStreamEnd(r)
    \/ ffmpegEnd(r)
    \/ handleDownloadVerify(r)
    \/ handleDownloadMoveTemp(r)

\* ---------------------------------------------------------------- subtitle requests
SubImpls == {"sub0", "sub1"}

\* the handler answers with an error before any record exists
handleDownloadSubtitleRejected(r) ==
    /\ impl \in SubImpls
    /\ CanSubmit(r)
    /\ Goto(r, "done")
    /\ Respond(r, "err")
    /\ UNCHANGED <<scen, impl, key, strat, invoked, retries, downloadProgress,
                   activeSubtitleRequests, file, conn, cancelled>>
    /\ UNCHANGED <<entry, results>>
    /\ UNCHANGED helperVars

\* subtitleDownloader.js: record, platform and URL checks, up to checkVideoAvailability
handleDownloadSubtitle(r) ==
    /\ impl = "sub1"
    /\ CanSubmit(r)
    /\ \E k \in Keys, ok \in BOOLEAN :
         /\ key' = [key EXCEPT ![r] = k]
         /\ downloadProgress' = MapSet(r, StartRec)
         /\ IF ok
            THEN Goto(r, "avail") /\ UNCHANGED <<resp, entry>>
            ELSE Goto(r, "done") /\ Respond(r, "err") /\ Resolved(r, "malformed")
    /\ UNCHANGED <<scen, impl, strat, invoked, retries, activeSubtitleRequests, file, conn, cancelled>>
    /\ UNCHANGED results
    /\ UNCHANGED helperVars

\* subtitleDownloader.js: availability, title, cleanFolder, the answer, then yt-dlp starts
handleDownloadSubtitleStart(r) ==
    /\ impl = "sub1"
    /\ pc[r] = "avail"
    /\ \/ /\ Goto(r, "done")
          /\ Respond(r, "err")
          /\ Resolved(r, "unavailable")
          /\ UNCHANGED <<strat, invoked, file>>
       \/ /\ \E evicted \in BOOLEAN :
               file' = [file EXCEPT ![key[r]] = IF evicted THEN "absent" ELSE @]
          /\ Respond(r, "id")
          /\ Resolved(r, "resolved")
          /\ Invoke(r, 1)
          /\ Goto(r, "strategy")
    /\ UNCHANGED <<scen, impl, key, retries, downloadProgress, activeSubtitleRequests, conn, cancelled>>
    /\ UNCHANGED results
    /\ UNCHANGED helperVars

\* part_000: record, duplicate check, the answer, platform and URL checks
handleDownloadSubtitleDedup(r) ==
    /\ impl = "sub0"
    /\ CanSubmit(r)
    /\ \E k \in Keys, ok \in BOOLEAN, evicted \in BOOLEAN :
         /\ key' = [key EXCEPT ![r] = k]
         /\ file' = [file EXCEPT ![k] = IF evicted THEN "absent" ELSE @]
         /\ IF k \in activeSubtitleRequests
            THEN /\ downloadProgress' = MapSet(r, StartRec)
                 /\ Respond(r, "dup")
                 /\ Goto(r, "done")
                 /\ UNCHANGED <<activeSubtitleRequests, entry>>
            ELSE /\ Respond(r, "id")
                 /\ IF ok
                    THEN /\ downloadProgress' = MapSet(r, StartRec)
                         /\ activeSubtitleRequests' = activeSubtitleRequests \cup {k}
                         /\ Goto(r, "avail")
                         /\ UNCHANGED entry
                    ELSE /\ downloadProgress' = MapSet(r, ErrorRecFor(-1))
                         /\ UNCHANGED activeSubtitleRequests
                         /\ Goto(r, "done")
                         /\ Resolved(r, "malformed")
    /\ UNCHANGED <<scen, impl, strat, invoked, retries, conn, cancelled>>
    /\ UNCHANGED results
    /\ UNCHANGED helperVars

\* a catch block without the finally block that releases the request key
SubtitleFailKeepsKey(r) ==
    /\ downloadProgress' = MapSet(r, ErrorRec)
    /\ UNCHANGED activeSubtitleRequests
    /\ Goto(r, "done")

\* the catch and finally blocks of the asynchronous part of part_000
SubtitleFail(r) ==
    /\ downloadProgress' = MapSet(r, ErrorRec)
    /\ activeSubtitleRequests' = activeSubtitleRequests \ {key[r]}
    /\ Goto(r, "done")

\* part_000: checkVideoAvailability has answered
handleDownloadSubtitleAvailability(r) ==
    /\ impl = "sub0"
    /\ pc[r] = "avail"
    /\ \/ /\ downloadProgress' = MapSet(r, ErrorRecFor(-1))
          /\ activeSubtitleRequests' = activeSubtitleRequests \ {key[r]}
          /\ Goto(r, "done")
          /\ Resolved(r, "unavailable")
       \/ /\ Goto(r, "langs")
          /\ Resolved(r, "resolved")
          /\ UNCHANGED <<downloadProgress, activeSubtitleRequests>>
    /\ UNCHANGED <<scen, impl, key, resp, strat, invoked, retries, file, conn, cancelled>>
    /\ UNCHANGED results
    /\ UNCHANGED helperVars

\* part_000: getAvailableSubtitleLanguages has answered; the first strategy starts
handleDownloadSubtitleLanguages(r) ==
    /\ impl = "sub0"
    /\ pc[r] = "langs"
    /\ \/ SubtitleFail(r) /\ UNCHANGED <<strat, invoked>>
       \/ /\ downloadProgress' = MapSet(r, ProgRec(30))
          /\ Invoke(r, 1)
          /\ Goto(r, "strategy")
          /\ UNCHANGED activeSubtitleRequests
    /\ UNCHANGED <<scen, impl, key, resp, retries, file, conn, cancelled>>
    /\ UNCHANGED <<entry, results>>
    /\ UNCHANGED helperVars

\* a strategy has returned: content that converts, content that does not, or nothing
subtitleStrategyReturn(r) ==
    /\ impl \in SubImpls
    /\ pc[r] = "strategy"
    /\ \E outcome \in {"content", "unconvertible"} \cup FailureKinds :
         LET result == IF outcome \in FailureKinds THEN outcome ELSE "Success"
             next == NextStrategy(impl, strat[r], result)
         IN /\ Returned(r, result)
            /\ IF next > 0
               THEN /\ Invoke(r, next)
                    /\ UNCHANGED <<pc, downloadProgress, activeSubtitleRequests>>
               ELSE IF outcome = "content"
                    THEN /\ downloadProgress' =
                              IF impl = "sub0" THEN MapSet(r, ProgRec(70))
                              ELSE downloadProgress
                         /\ Goto(r, "write")
                         /\ UNCHANGED <<strat, invoked, activeSubtitleRequests>>
                    ELSE /\ downloadProgress' =
                              MapSet(r, IF outcome = "unconvertible" THEN ErrorRec
                                        ELSE ErrorRecFor(LastThrown(impl, results'[r])))
                         /\ activeSubtitleRequests' = activeSubtitleRequests \ {key[r]}
                         /\ Goto(r, "done")
                         /\ UNCHANGED <<strat, invoked>>
    /\ UNCHANGED <<scen, impl, key, resp, retries, file, conn, cancelled>>
    /\ UNCHANGED entry
    /\ UNCHANGED helperVars

\* writeFile of the converted subtitles has settled (a failed write may leave an empty file)
subtitleWriteFile(r) ==
    /\ impl \in SubImpls
    /\ pc[r] = "write"
    /\ \/ /\ file' = [file EXCEPT ![key[r]] = "valid"]
          /\ downloadProgress' = MapSet(r, DoneRec)
       \/ /\ downloadProgress' = MapSet(r, ErrorRec)
          /\ \E left \in {"same", "empty"} :
               file' = [file EXCEPT ![key[r]] = IF left = "same" THEN @ ELSE left]
    /\ activeSubtitleRequests' = activeSubtitleRequests \ {key[r]}
    /\ Goto(r, "done")
    /\ UNCHANGED <<scen, impl, key, resp, strat, invoked, retries, conn, cancelled>>
    /\ UNCHANGED <<entry, results>>
    /\ UNCHANGED helperVars

SubtitleStep(r) ==
    \/ handleDownloadSubtitleRejected(r)
    \/ handleDownloadSubtitle(r)
    \/ handleDownloadSubtitleStart(r)
    \/ handleDownloadSubtitleDedup(r)
    \/ handleDownloadSubtitleAvailability(r)
    \/ handleDownloadSubtitleLanguages(r)
    \/ subtitleStrategyReturn(r)
    \/ subtitleWriteFile(r)

\* ---------------------------------------------------------------- downloadSubtitleWithYtdlCore(url, language, isAuto, downloadId)
CoreRetries == 3

\* the function is entered with the downloadId its caller gave to the client
downloadSubtitleWithYtdlCore(r) ==
    /\ impl = "core"
    /\ CanSubmit(r)
    /\ \E k \in Keys : key' = [key EXCEPT ![r] = k]
    /\ Respond(r, "id")
    /\ Goto(r, "info")
    /\ UNCHANGED <<scen, impl, strat, invoked, retries, downloadProgress,
                   activeSubtitleRequests, file, conn, cancelled>>
    /\ UNCHANGED <<entry, results>>
    /\ UNCHANGED helperVars

\* getVideoInfo has settled; caption track selection; the first GET is sent
ytdlCoreInfo(r) ==
    /\ impl = "core"
    /\ pc[r] = "info"
    /\ \E outcome \in {"throws", "nocaptions", "notrack", "track"} :
         CASE outcome = "throws" ->
                /\ Goto(r, "done")
                /\ UNCHANGED <<downloadProgress, strat, invoked, retries>>
           [] outcome = "nocaptions" ->
                /\ downloadProgress' = updateDownloadProgress(r, 0, TRUE, FALSE, "error")
                /\ Goto(r, "done")
                /\ UNCHANGED <<strat, invoked, retries>>
           [] outcome = "notrack" ->
                /\ downloadProgress' = updateDownloadProgress(r, 0, TRUE, FALSE, "error")
                /\ Goto(r, "done")
                /\ UNCHANGED <<strat, invoked, retries>>
           [] outcome = "track" ->
                /\ Invoke(r, 1)
                /\ retries' = [retries EXCEPT ![r] = CoreRetries]
                /\ downloadProgress' =
                     [downloadProgress EXCEPT ![r] =
                        [MergedRecord(downloadProgress[r], 30, FALSE, FALSE,
                                      "downloading_subtitle") EXCEPT !.by = 1]]
                /\ Goto(r, "get")
    /\ UNCHANGED <<scen, impl, key, resp, activeSubtitleRequests, file, conn, cancelled>>
    /\ UNCHANGED <<entry, results>>
    /\ UNCHANGED helperVars

\* axios.get has settled and the body has been converted, or either has failed
ytdlCoreGet(r) ==
    /\ impl = "core"
    /\ pc[r] = "get"
    /\ \/ /\ downloadProgress' = updateDownloadProgress(r, 100, FALSE, TRUE, "completed")
          /\ Goto(r, "done")
          /\ UNCHANGED retries
       \/ /\ retries' = [retries EXCEPT ![r] = @ - 1]
          /\ IF retries[r] - 1 > 0
             THEN /\ downloadProgress' = updateDownloadProgress(r, 30, TRUE, FALSE, "retrying")
                  /\ Goto(r, "backoff")
             ELSE /\ downloadProgress' = updateDownloadProgress(r, 0, TRUE, FALSE, "error")
                  /\ Goto(r, "done")
    /\ UNCHANGED <<scen, impl, key, resp, strat, invoked, activeSubtitleRequests, file, conn, cancelled>>
    /\ UNCHANGED <<entry, results>>
    /\ UNCHANGED helperVars

\* the backoff timer has fired: the next GET is sent
ytdlCoreBackoff(r) ==
    /\ impl = "core"
    /\ pc[r] = "backoff"
    /\ invoked' = [invoked EXCEPT ![r] = @ + 1]
    /\ Goto(r, "get")
    /\ UNCHANGED <<scen, impl, key, resp, strat, retries, downloadProgress,
                   activeSubtitleRequests, file, conn, cancelled>>
    /\ UNCHANGED <<entry, results>>
    /\ UNCHANGED helperVars

CoreStep(r) ==
    \/ downloadSubtitleWithYtdlCore(r)
    \/ ytdlCoreInfo(r)
    \/ ytdlCoreGet(r)
    \/ ytdlCoreBackoff(r)

\* ---------------------------------------------------------------- progress stream
\* sendProgress that leaves the response open after a terminal record
sendProgressConnKeepsOpen(c, cn) ==
    LET progress == getDownloadProgress(cn.id)
        delivered == cn.st = "open"
    IN IF progress = NoRec THEN cn
       ELSE [cn EXCEPT !.last = IF delivered THEN progress ELSE @,
                       !.wae = @ \/ ~delivered]

\* sendProgress of connection c: the new connection record and the new store
sendProgressConn(c, cn) ==
    LET progress == getDownloadProgress(cn.id)
        delivered == cn.st = "open"
        pushed == [cn EXCEPT !.last = IF delivered THEN progress ELSE @,
                             !.wae = @ \/ ~delivered]
    IN IF progress = NoRec THEN cn
       ELSE IF EndpointTerminal(progress)
            THEN [pushed EXCEPT !.st = "ended"]
            ELSE pushed

\* sendProgress that stamps the record it has sent
sendProgressStoreMarks(id) ==
    LET progress == getDownloadProgress(id)
    IN IF progress = NoRec THEN downloadProgress
       ELSE IF EndpointTerminal(progress)
            THEN removeDownloadProgress(id)
            ELSE [downloadProgress EXCEPT ![id].stage = "sent"]

sendProgressStore(id) ==
    LET progress == getDownloadProgress(id)
    IN IF progress # NoRec /\ EndpointTerminal(progress)
       THEN removeDownloadProgress(id)
       ELSE downloadProgress

\* GET /api/download-progress/:downloadId
openProgressStream(c) ==
    /\ scen = "streams"
    /\ conn[c].st = "free"
    /\ IF c = 1 THEN TRUE ELSE conn[c - 1].st # "free"
    /\ \E id \in Reqs :
         /\ resp[id] = "id"
         /\ conn' = [conn EXCEPT ![c] =
                sendProgressConn(c, [FreeConn EXCEPT !.st = "open", !.id = id,
                                                     !.timer = TRUE])]
         /\ downloadProgress' = sendProgressStore(id)
    /\ UNCHANGED <<scen, impl, reqVars, activeSubtitleRequests, file, cancelled>>
    /\ UNCHANGED helperVars

\* the 500 ms interval fires
progressInterval(c) ==
    /\ conn[c].timer
    /\ IF getDownloadProgress(conn[c].id) = NoRec
       THEN /\ conn' = [conn EXCEPT ![c].timer = FALSE,
                                    ![c].st = IF @ = "open" THEN "ended" ELSE @]
            /\ UNCHANGED downloadProgress
       ELSE /\ conn' = [conn EXCEPT ![c] = sendProgressConn(c, conn[c])]
            /\ downloadProgress' = sendProgressStore(conn[c].id)
    /\ UNCHANGED <<scen, impl, reqVars, activeSubtitleRequests, file, cancelled>>
    /\ UNCHANGED helperVars

\* a close handler that also aborts the acquisition
requestCloseAborts(c) ==
    /\ conn[c].st \in {"open", "ended"}
    /\ conn' = [conn EXCEPT ![c].st = IF @ = "open" THEN "gone" ELSE "closed",
                            ![c].timer = FALSE]
    /\ downloadProgress' = removeDownloadProgress(conn[c].id)
    /\ pc' = [pc EXCEPT ![conn[c].id] = "done"]
    /\ activeSubtitleRequests' = activeSubtitleRequests \ {key[conn[c].id]}
    /\ UNCHANGED <<scen, impl, key, resp, strat, invoked, retries, file, cancelled>>
    /\ UNCHANGED <<entry, results>>
    /\ UNCHANGED helperVars

\* a close handler that leaves the interval running
requestCloseKeepsInterval(c) ==
    /\ conn[c].st \in {"open", "ended"}
    /\ conn' = [conn EXCEPT ![c].st = IF @ = "open" THEN "gone" ELSE "closed"]
    /\ downloadProgress' = removeDownloadProgress(conn[c].id)
    /\ UNCHANGED <<scen, impl, reqVars, activeSubtitleRequests, file, cancelled>>
    /\ UNCHANGED helperVars

\* req 'close': the client went away, or the ended response has been flushed
requestClose(c) ==
    /\ conn[c].st \in {"open", "ended"}
    /\ conn' = [conn EXCEPT ![c].st = IF @ = "open" THEN "gone" ELSE "closed",
                            ![c].timer = FALSE]
    /\ downloadProgress' = removeDownloadProgress(conn[c].id)
    /\ UNCHANGED <<scen, impl, reqVars, activeSubtitleRequests, file, cancelled>>
    /\ UNCHANGED helperVars

\* POST /api/cancel-download/:downloadId; `cancelled` is a history variable: the
\* downloadIds whose entry the cancel endpoint has removed
cancelDownload(id) ==
    /\ scen = "streams"
    /\ resp[id] = "id"
    /\ downloadProgress' = removeDownloadProgress(id)
    /\ cancelled' = IF downloadProgress[id] # NoRec THEN cancelled \cup {id} ELSE cancelled
    /\ UNCHANGED <<scen, impl, reqVars, activeSubtitleRequests, file, conn>>
    /\ UNCHANGED helperVars

StreamStep(c) == openProgressStream(c) \/ progressInterval(c) \/ requestClose(c)

Next ==
    \/ \E r \in Reqs : MediaStep(r)
    \/ \E r \in Reqs : SubtitleStep(r)
    \/ \E r \in Reqs : CoreStep(r)
    \/ \E c \in Conns : StreamStep(c)
    \/ \E id \in Reqs : cancelDownload(id)

Spec == Init /\ [][Next]_vars

\* what the server does on its own: a started request runs on, timers fire,
\* the close event of an ended response is delivered
RequestRuns(r) ==
    /\ pc[r] # "idle"
    /\ MediaStep(r) \/ SubtitleStep(r) \/ CoreStep(r)

ResponseFlushed(c) == conn[c].st = "ended" /\ requestClose(c)

FairSpec ==
    /\ Spec
    /\ \A r \in Reqs : WF_vars(RequestRuns(r))
    /\ \A c \in Conns : WF_vars(progressInterval(c)) /\ WF_vars(ResponseFlushed(c))

\* the server of HOSTING_SETUP.md: the progress endpoint, the cancel endpoint
\* and downloadSubtitleWithYtdlCore, with the scheduling of FairSpec
HostingInit == Init /\ scen = "streams" /\ impl = "core"

HostingNext ==
    \/ \E r \in Reqs : CoreStep(r)
    \/ \E c \in Conns : StreamStep(c)
    \/ \E id \in Reqs : cancelDownload(id)

HostingFairSpec ==
    /\ HostingInit
    /\ [][HostingNext]_vars
    /\ \A r \in Reqs : WF_vars(pc[r] # "idle" /\ CoreStep(r))
    /\ \A c \in Conns : WF_vars(progressInterval(c)) /\ WF_vars(ResponseFlushed(c))

\* ---------------------------------------------------------------- retry helpers
\* no request is running
MainIdle ==
    /\ scen = "requests"
    /\ impl = "vd"
    /\ pc = [r \in Reqs |-> "idle"]
    /\ key = [r \in Reqs |-> 0]
    /\ resp = [r \in Reqs |-> "none"]
    /\ strat = [r \in Reqs |-> 0]
    /\ invoked = [r \in Reqs |-> 0]
    /\ retries = [r \in Reqs |-> 0]
    /\ downloadProgress = [r \in Reqs |-> NoRec]
    /\ activeSubtitleRequests = {}
    /\ file = [k \in Keys |-> "absent"]
    /\ conn = [c \in Conns |-> FreeConn]
    /\ cancelled = {}
    /\ entry = [r \in Reqs |-> "none"]
    /\ results = [r \in Reqs |-> << >>]

\* one call of one helper, with the arguments its callers pass
RetryInit ==
    /\ MainIdle
    /\ TempIdle
    /\ EvictIdle
    /\ ProgIdle
    /\ LangIdle
    /\ CueIdle
    /\ FmtIdle
    /\ ExistIdle
    /\ helper \in Helpers
    /\ hpc = "start"
    /\ fpc = "off"
    /\ fargs \in IF helper = "fetchWithRetry"
                 THEN {DefaultFetchArgs, CaptionFetchArgs}
                 ELSE {CaptionFetchArgs}
    /\ i = 0
    /\ attempt = 0
    /\ ua = 0
    /\ calls = [op \in Ops |-> 0]
    /\ delays = [l \in Loops |-> << >>]
    /\ live = 0

Call(op) == calls' = [calls EXCEPT ![op] = @ + 1]
Wait(l, ms) == delays' = [delays EXCEPT ![l] = Append(@, ms)]

\* fetchWithRetry is entered: i = 0 and the first axios call is made
fetchWithRetryBegin ==
    /\ fpc' = "axios"
    /\ i' = 0
    /\ delays' = [delays EXCEPT !["fetchWithRetry"] = << >>]
    /\ Call("axios")

\* a caller that is nothing but fetchWithRetry
fetchWithRetry ==
    /\ helper = "fetchWithRetry"
    /\ hpc = "start"
    /\ hpc' = "fetch"
    /\ fetchWithRetryBegin
    /\ UNCHANGED <<mainVars, fmtVars, existVars, cueVars, progVars, langVars, tempVars, evictVars, helper, fargs, attempt, ua, live>>

\* the axios call has settled: return, throw after the last try, or sleep
axiosSettled ==
    /\ fpc = "axios"
    /\ \E ok \in BOOLEAN :
         fpc' = IF ok THEN "returned"
                ELSE IF i = fargs.retries THEN "threw" ELSE "sleep"
    /\ UNCHANGED <<mainVars, fmtVars, existVars, cueVars, progVars, langVars, tempVars, evictVars, helper, hpc, fargs, i, attempt, ua, calls, delays, live>>

\* the delay of fetchWithRetry has passed: next iteration, next axios call
fetchWithRetryTimer ==
    /\ fpc = "sleep"
    /\ fpc' = "axios"
    /\ i' = i + 1
    /\ Wait("fetchWithRetry", fargs.delay)
    /\ Call("axios")
    /\ UNCHANGED <<mainVars, fmtVars, existVars, cueVars, progVars, langVars, tempVars, evictVars, helper, hpc, fargs, attempt, ua, live>>

\* the catch block of downloadSubtitleWithRetry
subtitleRetryCatch ==
    hpc' = IF attempt = SubtitleRetries - 1 THEN "threw" ELSE "backoff"

\* downloadSubtitleWithRetry is entered: attempt 0 calls ytdl.getInfo
downloadSubtitleWithRetry ==
    /\ helper = "downloadSubtitleWithRetry"
    /\ hpc = "start"
    /\ hpc' = "getInfo"
    /\ attempt' = 0
    /\ Call("getInfo")
    /\ UNCHANGED <<mainVars, fmtVars, existVars, cueVars, progVars, langVars, tempVars, evictVars, helper, fpc, fargs, i, ua, delays, live>>

\* ytdl.getInfo has settled; a caption track is fetched with fetchWithRetry
subtitleRetryGetInfo ==
    /\ helper = "downloadSubtitleWithRetry"
    /\ hpc = "getInfo"
    /\ \E out \in {"throws", "nocaptions", "notrack", "track"} :
         CASE out = "track" ->
                /\ hpc' = "fetch"
                /\ fetchWithRetryBegin
           [] out = "notrack" ->
                /\ hpc' = "ytDlp"
                /\ Call("ytDlp")
                /\ UNCHANGED <<fpc, i, delays>>
           [] OTHER ->
                /\ subtitleRetryCatch
                /\ UNCHANGED <<fpc, i, calls, delays>>
    /\ UNCHANGED <<mainVars, fmtVars, existVars, cueVars, progVars, langVars, tempVars, evictVars, helper, fargs, attempt, ua, live>>

\* fetchWithRetry has returned or thrown inside downloadSubtitleWithRetry
subtitleRetryFetched ==
    /\ helper = "downloadSubtitleWithRetry"
    /\ hpc = "fetch"
    /\ fpc \in {"returned", "threw"}
    /\ fpc' = "off"
    /\ IF fpc = "threw"
       THEN subtitleRetryCatch /\ UNCHANGED calls
       ELSE \E blank \in BOOLEAN :
              IF blank THEN hpc' = "ytDlp" /\ Call("ytDlp")
              ELSE hpc' = "returned" /\ UNCHANGED calls
    /\ UNCHANGED <<mainVars, fmtVars, existVars, cueVars, progVars, langVars, tempVars, evictVars, helper, fargs, i, attempt, ua, delays, live>>

\* yt-dlp has exited and its output file has been looked for
subtitleRetryYtDlp ==
    /\ helper = "downloadSubtitleWithRetry"
    /\ hpc = "ytDlp"
    /\ \E out \in {"throws", "content", "nothing"} :
         CASE out = "content" -> hpc' = "returned" /\ UNCHANGED calls
           [] out = "nothing" -> hpc' = "extract" /\ Call("getYTSubtitles")
           [] OTHER -> subtitleRetryCatch /\ UNCHANGED calls
    /\ UNCHANGED <<mainVars, fmtVars, existVars, cueVars, progVars, langVars, tempVars, evictVars, helper, fpc, fargs, i, attempt, ua, delays, live>>

\* getYTSubtitles has settled (the second call asks for the translated track)
subtitleRetryExtract ==
    /\ helper = "downloadSubtitleWithRetry"
    /\ hpc \in {"extract", "extract2"}
    /\ \E out \in {"throws", "content", "nothing"} :
         CASE out = "content" -> hpc' = "returned" /\ UNCHANGED calls
           [] out = "nothing" /\ hpc = "extract" ->
                hpc' = "extract2" /\ Call("getYTSubtitles")
           [] OTHER -> subtitleRetryCatch /\ UNCHANGED calls
    /\ UNCHANGED <<mainVars, fmtVars, existVars, cueVars, progVars, langVars, tempVars, evictVars, helper, fpc, fargs, i, attempt, ua, delays, live>>

\* the backoff of downloadSubtitleWithRetry has passed: next attempt
subtitleRetryBackoff ==
    /\ helper = "downloadSubtitleWithRetry"
    /\ hpc = "backoff"
    /\ hpc' = "getInfo"
    /\ attempt' = attempt + 1
    /\ Wait("downloadSubtitleWithRetry", SubtitleBackoff(attempt))
    /\ Call("getInfo")
    /\ UNCHANGED <<mainVars, fmtVars, existVars, cueVars, progVars, langVars, tempVars, evictVars, helper, fpc, fargs, i, ua, live>>

\* a new ytdl stream is created and its test begins
mediaNewStream ==
    /\ hpc' = "test"
    /\ Call("ytdl")
    /\ live' = live + 1

\* downloadMediaWithYtdlCore (video) is entered: the first user agent asks for the info
downloadMediaWithYtdlCore ==
    /\ helper = "downloadMediaWithYtdlCore"
    /\ hpc = "start"
    /\ hpc' = "info"
    /\ attempt' = 0
    /\ ua' = 1
    /\ Call("getInfo")
    /\ UNCHANGED <<mainVars, fmtVars, existVars, cueVars, progVars, langVars, tempVars, evictVars, helper, fpc, fargs, i, delays, live>>

\* ytdl.getInfo has settled; with the info a format is selected and the
\* download loop starts with retryCount = 0 and the first user agent
mediaGetInfo ==
    /\ helper = "downloadMediaWithYtdlCore"
    /\ hpc = "info"
    /\ \E out \in {"info", "noformat", "throws"} :
         CASE out = "info" ->
                /\ attempt' = 0
                /\ ua' = 1
                /\ delays' = [delays EXCEPT !["userAgents"] = << >>,
                                            !["downloadMediaWithYtdlCore"] = << >>]
                /\ mediaNewStream
           [] out = "noformat" ->
                /\ hpc' = "threw"
                /\ UNCHANGED <<attempt, ua, calls, delays, live>>
           [] OTHER ->
                /\ hpc' = "infoPause"
                /\ UNCHANGED <<attempt, ua, calls, delays, live>>
    /\ UNCHANGED <<mainVars, fmtVars, existVars, cueVars, progVars, langVars, tempVars, evictVars, helper, fpc, fargs, i>>

\* the test of the stream has settled: first data, a stream error (whose first
\* listener throws out of the emitter), or 10 s without either; the timeout
\* rejects and leaves the stream as it is
mediaStreamTest ==
    /\ helper = "downloadMediaWithYtdlCore"
    /\ hpc = "test"
    /\ \E out \in {"data", "timeout", "error"} :
         CASE out = "data" -> hpc' = "returned" /\ UNCHANGED live
           [] out = "timeout" -> hpc' = "testPause" /\ UNCHANGED live
           [] OTHER -> hpc' = "crashed" /\ live' = live - 1
    /\ UNCHANGED <<mainVars, fmtVars, existVars, cueVars, progVars, langVars, tempVars, evictVars, helper, fpc, fargs, i, attempt, ua, calls, delays>>

\* the 1 s pause after a failed user agent has passed: next user agent, or the
\* end of the for loop and retryCount++
mediaPause ==
    /\ helper = "downloadMediaWithYtdlCore"
    /\ hpc \in {"infoPause", "testPause"}
    /\ IF ua < NumUserAgents
       THEN /\ ua' = ua + 1
            /\ Wait("userAgents", 1000)
            /\ IF hpc = "infoPause"
               THEN hpc' = "info" /\ Call("getInfo") /\ UNCHANGED live
               ELSE mediaNewStream
            /\ UNCHANGED attempt
       ELSE /\ attempt' = attempt + 1
            /\ Wait("userAgents", 1000)
            /\ hpc' = IF attempt + 1 < MediaMaxRetries
                      THEN (IF hpc = "infoPause" THEN "infoBackoff" ELSE "testBackoff")
                      ELSE "threw"
            /\ UNCHANGED <<ua, calls, live>>
    /\ UNCHANGED <<mainVars, fmtVars, existVars, cueVars, progVars, langVars, tempVars, evictVars, helper, fpc, fargs, i>>

\* the wait of 2000 * retryCount has passed: the user agents are tried again
mediaBackoff ==
    /\ helper = "downloadMediaWithYtdlCore"
    /\ hpc \in {"infoBackoff", "testBackoff"}
    /\ ua' = 1
    /\ Wait("downloadMediaWithYtdlCore", 2000 * attempt)
    /\ IF hpc = "infoBackoff"
       THEN hpc' = "info" /\ Call("getInfo") /\ UNCHANGED live
       ELSE mediaNewStream
    /\ UNCHANGED <<mainVars, fmtVars, existVars, cueVars, progVars, langVars, tempVars, evictVars, helper, fpc, fargs, i, attempt>>

RetryNext ==
    \/ fetchWithRetry
    \/ axiosSettled
    \/ fetchWithRetryTimer
    \/ downloadSubtitleWithRetry
    \/ subtitleRetryGetInfo
    \/ subtitleRetryFetched
    \/ subtitleRetryYtDlp
    \/ subtitleRetryExtract
    \/ subtitleRetryBackoff
    \/ downloadMediaWithYtdlCore
    \/ mediaGetInfo
    \/ mediaStreamTest
    \/ mediaPause
    \/ mediaBackoff

RetrySpec == RetryInit /\ [][RetryNext]_vars

\* ---------------------------------------------------------------- temp files
TempInit ==
    /\ MainIdle
    /\ RetryIdle
    /\ EvictIdle
    /\ ProgIdle
    /\ LangIdle
    /\ CueIdle
    /\ FmtIdle
    /\ ExistIdle
    /\ tcode \in TempCodes
    /\ tpc = [r \in TempReqs |-> "idle"]
    /\ tkey = [r \in TempReqs |-> NoKey]
    /\ tmp = [p \in TempPaths |-> NoFile]
    /\ got = [r \in TempReqs |-> NoFile]
    /\ tout = [r \in TempReqs |-> "none"]
    /\ post = [r \in TempReqs |-> "none"]

\* a request reaches the step that uses the temp file: the tool is started
tempStart(r) ==
    /\ tpc[r] = "idle"
    /\ IF r = 1 THEN TRUE ELSE tpc[r - 1] # "idle"
    /\ \E k \in TempKeys : tkey' = [tkey EXCEPT ![r] = k]
    /\ tpc' = [tpc EXCEPT ![r] = "tool"]
    /\ UNCHANGED <<mainVars, fmtVars, existVars, cueVars, progVars, langVars, retryVars, evictVars, tcode, tmp, got, tout, post>>

\* yt-dlp has exited, or the video stream has ended: the file is written, or
\* the tool succeeds and writes nothing (no subtitles in that language, no
\* bytes from the stream), or the tool fails and the temp file is not looked
\* at. The file of a video stream is opened before the stream is awaited, so
\* it exists however the stream ends.
tempToolDone(r) ==
    /\ tpc[r] = "tool"
    /\ \E outcome \in {"written", "nothing", "failed"} :
         /\ tmp' = CASE outcome = "written" ->
                          [tmp EXCEPT ![TempPath(tcode, tkey[r])] = Content(tcode, tkey[r])]
                     [] tcode = "handleDownload" ->
                          [tmp EXCEPT ![TempPath(tcode, tkey[r])] = PartialFile]
                     [] OTHER -> tmp
         /\ tpc' = [tpc EXCEPT ![r] =
                      CASE outcome = "failed" -> "done"
                        [] tcode = "handleDownload" ->
                             IF outcome = "written" THEN "read" ELSE "done"
                        [] OTHER -> "access"]
         /\ tout' = [tout EXCEPT ![r] = outcome]
    /\ UNCHANGED <<mainVars, fmtVars, existVars, cueVars, progVars, langVars, retryVars, evictVars, tcode, tkey, got, post>>

\* fsPromises.access(path) has settled
tempAccess(r) ==
    /\ tpc[r] = "access"
    /\ tpc' = [tpc EXCEPT ![r] =
                 IF tmp[TempPath(tcode, tkey[r])] = NoFile THEN "done" ELSE "read"]
    /\ UNCHANGED <<mainVars, fmtVars, existVars, cueVars, progVars, langVars, retryVars, evictVars, tcode, tkey, tmp, got, tout, post>>

\* readFile, or FFmpeg on its inputs, has settled; an FFmpeg error rejects
\* and the code after it (the unlinks) is skipped
tempRead(r) ==
    /\ tpc[r] = "read"
    /\ LET found == tmp[TempPath(tcode, tkey[r])] IN
         \E ok \in IF tcode = "handleDownload" THEN BOOLEAN ELSE {TRUE} :
           IF found = NoFile
           THEN /\ got' = [got EXCEPT ![r] = ReadError]
                /\ tpc' = [tpc EXCEPT ![r] = "done"]
                /\ post' = [post EXCEPT ![r] =
                              IF tcode = "handleDownload" THEN "failed" ELSE @]
           ELSE /\ got' = [got EXCEPT ![r] = IF ok THEN found ELSE @]
                /\ tpc' = [tpc EXCEPT ![r] = IF ok THEN "unlink" ELSE "done"]
                /\ post' = [post EXCEPT ![r] =
                              CASE tcode # "handleDownload" -> @
                                [] ok -> "ok"
                                [] OTHER -> "failed"]
    /\ UNCHANGED <<mainVars, fmtVars, existVars, cueVars, progVars, langVars, retryVars, evictVars, tcode, tkey, tmp, tout>>

\* unlink has settled; it rejects when the file is gone
tempUnlink(r) ==
    /\ tpc[r] = "unlink"
    /\ LET p == TempPath(tcode, tkey[r]) IN
         IF tmp[p] = NoFile
         THEN /\ got' = [got EXCEPT ![r] = ReadError]
              /\ UNCHANGED tmp
         ELSE /\ tmp' = [tmp EXCEPT ![p] = NoFile]
              /\ UNCHANGED got
    /\ tpc' = [tpc EXCEPT ![r] = "done"]
    /\ UNCHANGED <<mainVars, fmtVars, existVars, cueVars, progVars, langVars, retryVars, evictVars, tcode, tkey, tout, post>>

TempNext ==
    \E r \in TempReqs :
        \/ tempStart(r)
        \/ tempToolDone(r)
        \/ tempAccess(r)
        \/ tempRead(r)
        \/ tempUnlink(r)

TempSpec == TempInit /\ [][TempNext]_vars

\* ---------------------------------------------------------------- cleanFolder
\* the file with the smallest mtimeMs (fileStats sorted ascending, element 0)
Oldest(d) == CHOOSE f \in d : \A g \in d : f <= g

\* what cleanFolder leaves of a directory holding the files d
CleanFolder(d) == IF Cardinality(d) > MaxFiles THEN d \ {Oldest(d)} ELSE d

EvictInit ==
    /\ MainIdle
    /\ RetryIdle
    /\ TempIdle
    /\ EvictIdle
    /\ ProgIdle
    /\ LangIdle
    /\ CueIdle
    /\ FmtIdle
    /\ ExistIdle

\* a request handler calls cleanFolder on the directory before it starts
cleanFolder(r) ==
    /\ epc[r] = "idle"
    /\ dir' = CleanFolder(dir)
    /\ epc' = [epc EXCEPT ![r] = "cleaned"]
    /\ UNCHANGED <<mainVars, fmtVars, existVars, cueVars, progVars, langVars, retryVars, tempVars, clock>>

\* the request ends: it has written its artifact into the directory (a new
\* file, or an existing file of the same name written again), or none
evictWriteArtifact(r) ==
    /\ epc[r] = "cleaned"
    /\ \E over \in dir \cup {0, -1} :
         IF over >= 0 /\ clock < MaxClock
         THEN /\ clock' = clock + 1
              /\ dir' = (dir \ {over}) \cup {clock + 1}
         ELSE UNCHANGED <<dir, clock>>
    /\ epc' = [epc EXCEPT ![r] = "idle"]
    /\ UNCHANGED <<mainVars, fmtVars, existVars, cueVars, progVars, langVars, retryVars, tempVars>>

EvictNext ==
    \E r \in TempReqs :
        \/ cleanFolder(r)
        \/ evictWriteArtifact(r)

EvictSpec == EvictInit /\ [][EvictNext]_vars

\* ---------------------------------------------------------------- progress values
\* parseFloat of the text "<whole>.<digit>" that the pattern (\d+\.\d+)% captured
ParseFloat(whole, digit) == whole * 10 + digit

\* Math.round(a / b) for a >= 0 and b > 0
RoundDiv(a, b) == (2 * a + b) \div (2 * b)

\* the value each stream handler computes from the byte counts of an event:
\* Math.round((downloaded / total) * 100 * 0.5), 50 + the same, and
\* Math.round((downloaded / total) * 100)
Percent(l, downloaded, total) ==
    CASE l = "fbVideo" -> RoundDiv(downloaded * 50, total)
      [] l = "fbAudio" -> 50 + RoundDiv(downloaded * 50, total)
      [] OTHER -> RoundDiv(downloaded * 100, total)

ProgInit ==
    /\ MainIdle
    /\ RetryIdle
    /\ TempIdle
    /\ EvictIdle
    /\ ProgIdle
    /\ LangIdle
    /\ CueIdle
    /\ FmtIdle
    /\ ExistIdle

\* child.stdout 'data' of yt-dlp: a line "[download]  45.3% of ..." is matched
\* and the parsed number is stored as the progress
progressYtDlp ==
    /\ \E whole \in 0..100, digit \in 0..9 :
         /\ whole < 100 \/ digit = 0
         /\ written' = ParseFloat(whole, digit)
    /\ wsrc' = "ytDlp"
    /\ UNCHANGED <<mainVars, fmtVars, existVars, cueVars, retryVars, tempVars, evictVars, langVars>>

\* 'progress' of a ytdl-core stream of handleDownload
progressStream ==
    /\ \E l \in StreamLabels, total \in 1..MaxBytes :
         \E downloaded \in 1..total :
            /\ written' = 10 * Percent(l, downloaded, total)
            /\ wsrc' = l
    /\ UNCHANGED <<mainVars, fmtVars, existVars, cueVars, retryVars, tempVars, evictVars, langVars>>

\* stream 'data' of the handler that pipes downloadMediaWithYtdlCore: the
\* total is videoInfo.contentLength || 0
progressData ==
    /\ \E totalBytes \in 0..MaxBytes, downloadedBytes \in 1..MaxBytes :
         /\ totalBytes = 0 \/ downloadedBytes <= totalBytes
         /\ written' = IF totalBytes # 0
                       THEN 10 * RoundDiv(downloadedBytes * 100, totalBytes)
                       ELSE 0
    /\ wsrc' = "data"
    /\ UNCHANGED <<mainVars, fmtVars, existVars, cueVars, retryVars, tempVars, evictVars, langVars>>

ProgNext ==
    \/ progressYtDlp
    \/ progressStream
    \/ progressData

ProgSpec == ProgInit /\ [][ProgNext]_vars

\* ---------------------------------------------------------------- subtitle languages
\* one request: any handler, any requested language, any captions
LangInit ==
    /\ MainIdle
    /\ RetryIdle
    /\ TempIdle
    /\ EvictIdle
    /\ ProgIdle
    /\ CueIdle
    /\ FmtIdle
    /\ ExistIdle
    /\ lcode \in LangCodes
    /\ lpc = "check"
    /\ want \in Langs
    /\ manual \in SUBSET Langs
    /\ auto \in SUBSET Langs
    /\ lrec = NoOutcome

LangEnd(o) == lrec' = o /\ lpc' = "done"

\* part_000: getAvailableSubtitleLanguages has answered and the requested
\* language is looked up in the union of the two lists
langCheck ==
    /\ lcode = "part_000"
    /\ lpc = "check"
    /\ LET allLanguages == manual \cup auto IN
         CASE allLanguages = {} -> LangEnd(Outcome("error", "noSubtitles", {}, 0))
           [] want \notin allLanguages ->
                LangEnd(Outcome("error", "notFound", allLanguages, 0))
           [] OTHER -> lpc' = "strategies" /\ UNCHANGED lrec
    /\ UNCHANGED <<mainVars, fmtVars, existVars, cueVars, retryVars, tempVars, evictVars, progVars, lcode, want, manual, auto>>

\* server.js: checkSubtitleAvailability has answered (getInfo has returned
\* the caption tracks); an unavailable language is answered with HTTP 404 and
\* no record is written
langCheckServer ==
    /\ lcode = "server"
    /\ lpc = "check"
    /\ CASE manual \cup auto = {} -> LangEnd(Outcome("http404", "noSubtitles", {}, 0))
         [] want \notin manual \cup auto ->
              LangEnd(Outcome("http404", "notFound", manual \cup auto, 0))
         [] OTHER -> lpc' = "strategies" /\ UNCHANGED lrec
    /\ UNCHANGED <<mainVars, fmtVars, existVars, cueVars, retryVars, tempVars, evictVars, progVars, lcode, want, manual, auto>>

\* subtitleDownloader.js has no language check: its strategies are started
\* with the requested language
langNoCheck ==
    /\ lcode = "subtitleDownloader"
    /\ lpc = "check"
    /\ lpc' = "ytDlp"
    /\ UNCHANGED <<mainVars, fmtVars, existVars, cueVars, retryVars, tempVars, evictVars, progVars, lcode, want, manual, auto, lrec>>

\* the strategies of part_000 and server.js, for a language that passed the check
langStrategies ==
    /\ lpc = "strategies"
    /\ \E found \in BOOLEAN :
         LangEnd(IF found THEN Outcome("completed", "none", {}, want)
                 ELSE Outcome("error", "generic", {}, 0))
    /\ UNCHANGED <<mainVars, fmtVars, existVars, cueVars, retryVars, tempVars, evictVars, progVars, lcode, want, manual, auto>>

\* subtitleDownloader.js, yt-dlp with writeSub and subLang: manual subtitles
\* of the requested language, or nothing
langYtDlp ==
    /\ lpc = "ytDlp"
    /\ \E worked \in BOOLEAN :
         IF worked /\ want \in manual
         THEN LangEnd(Outcome("completed", "none", {}, want))
         ELSE lpc' = "ytdlCore" /\ UNCHANGED lrec
    /\ UNCHANGED <<mainVars, fmtVars, existVars, cueVars, retryVars, tempVars, evictVars, progVars, lcode, want, manual, auto>>

\* subtitleDownloader.js, downloadSubtitleWithYtdlCore: the caption track
\* whose languageCode is the requested language, or null
langYtdlCore ==
    /\ lpc = "ytdlCore"
    /\ \E worked \in BOOLEAN :
         IF worked /\ want \in manual \cup auto
         THEN LangEnd(Outcome("completed", "none", {}, want))
         ELSE lpc' = "nodeSubtitles" /\ UNCHANGED lrec
    /\ UNCHANGED <<mainVars, fmtVars, existVars, cueVars, retryVars, tempVars, evictVars, progVars, lcode, want, manual, auto>>

\* the language downloadSubtitleWithNodeSubtitles returns subtitles in: the
\* requested one (manual, then automatic), then English; 0 when none
NodeSubtitlesLanguage(w, m, a) ==
    CASE w \in m -> w
      [] w \in a -> w
      [] English \in m -> English
      [] OTHER -> 0

\* subtitleDownloader.js, downloadSubtitleWithNodeSubtitles, then the end of
\* the request: the completed record, or the error of line 469
langNodeSubtitles ==
    /\ lpc = "nodeSubtitles"
    /\ \E worked \in BOOLEAN :
         LET lang == NodeSubtitlesLanguage(want, manual, auto) IN
           IF worked /\ lang # 0
           THEN LangEnd(Outcome("completed", "none", {}, lang))
           ELSE LangEnd(Outcome("error", "generic", {}, 0))
    /\ UNCHANGED <<mainVars, fmtVars, existVars, cueVars, retryVars, tempVars, evictVars, progVars, lcode, want, manual, auto>>

LangNext ==
    \/ langCheck
    \/ langCheckServer
    \/ langNoCheck
    \/ langStrategies
    \/ langYtDlp
    \/ langYtdlCore
    \/ langNodeSubtitles

LangSpec == LangInit /\ [][LangNext]_vars

\* ---------------------------------------------------------------- subtitle text
\* A text is a sequence of characters. A character is a record: its kind, and
\* for the 29 characters "hh:mm:ss.mmm --> hh:mm:ss.mmm", taken as one
\* character of kind "ts", the digits of the two timestamps.
Ch(k) == [k |-> k, a |-> 0, b |-> 0]
NL == Ch("nl")
SP == Ch("sp")
Letter == Ch("letter")
Bell == Ch("ctl")
Nbsp == Ch("&nbsp;")
Amp == Ch("&amp;")
Ampersand == Ch("&")
Header == Ch("WEBVTT")

\* msToTime(ms) without its punctuation: the digits hhmmssmmm
msToTime(ms) ==
    LET seconds == ms \div 1000
        minutes == seconds \div 60
        hours == minutes \div 60
    IN hours * 10000000 + (minutes % 60) * 100000 + (seconds % 60) * 1000 + (ms % 1000)

Ts(start, end) == [k |-> "ts", a |-> msToTime(start), b |-> msToTime(end)]

\* the texts a cue can have: a letter, the entity &nbsp;, the entity &amp;, a
\* control character, &nbsp; and a control character, or a space
Texts == {"letter", "nbsp", "amp", "ctl", "nbspctl", "space"}
TextChars(x) ==
    CASE x = "letter" -> <<Letter>>
      [] x = "nbsp" -> <<Nbsp>>
      [] x = "amp" -> <<Amp>>
      [] x = "ctl" -> <<Bell>>
      [] x = "nbspctl" -> <<Nbsp, Bell>>
      [] OTHER -> <<SP>>

\* cue n of a subtitle track lasts 61.5 s and follows cue n - 1; start and
\* end are in milliseconds (sub.start * 1000, sub.end * 1000)
CueAt(n, x) == [start |-> (n - 1) * 61500, end |-> n * 61500, text |-> TextChars(x)]
CueLists ==
    UNION {{[n \in 1..len |-> CueAt(n, xs[n])] : xs \in [1..len -> Texts]} : len \in 0..MaxCues}

RECURSIVE Flatten(_)
Flatten(ss) == IF ss = << >> THEN << >> ELSE Head(ss) \o Flatten(Tail(ss))

IsSpace(ch) == ch.k \in {"sp", "nl"}

\* String.prototype.trim
RECURSIVE TrimStart(_)
TrimStart(t) ==
    IF t # << >> /\ IsSpace(Head(t)) THEN TrimStart(Tail(t)) ELSE t
RECURSIVE TrimEnd(_)
TrimEnd(t) ==
    IF t # << >> /\ IsSpace(t[Len(t)]) THEN TrimEnd(SubSeq(t, 1, Len(t) - 1)) ELSE t
Trim(t) == TrimEnd(TrimStart(t))

\* String.prototype.split('\n') and Array.prototype.join('\n')
RECURSIVE Split(_)
Split(t) ==
    IF \A n \in 1..Len(t) : t[n] # NL THEN <<t>>
    ELSE LET n == CHOOSE m \in 1..Len(t) : t[m] = NL /\ \A j \in 1..(m - 1) : t[j] # NL
         IN <<SubSeq(t, 1, n - 1)>> \o Split(SubSeq(t, n + 1, Len(t)))
RECURSIVE Join(_)
Join(ls) ==
    IF ls = << >> THEN << >>
    ELSE IF Len(ls) = 1 THEN ls[1]
    ELSE ls[1] \o <<NL>> \o Join(Tail(ls))

\* a VTT text as a caption source serves it: the header, then every cue as a
\* timestamp line, its text line and a blank line
VttText(cs) ==
    <<Header, NL, NL>>
        \o Flatten([n \in 1..Len(cs) |->
                      <<Ts(cs[n].start, cs[n].end), NL>> \o cs[n].text \o <<NL, NL>>])

\* arrayToVtt(subtitles)
arrayToVtt(cs) ==
    Trim(Flatten([n \in 1..Len(cs) |->
                    IF Trim(cs[n].text) # << >>
                    THEN <<Ts(cs[n].start, cs[n].end), NL>> \o Trim(cs[n].text) \o <<NL, NL>>
                    ELSE << >>]))

\* the line matches /\d{2}:\d{2}:\d{2}\.\d{3} --> \d{2}:\d{2}:\d{2}\.\d{3}/
HasTs(l) == \E n \in 1..Len(l) : l[n].k = "ts"
FirstTs(l) == l[CHOOSE n \in 1..Len(l) : l[n].k = "ts" /\ \A j \in 1..(n - 1) : l[j].k # "ts"]

\* the line matches /[\p{L}\p{N}\p{P}\p{Z}\p{S}\p{M}]/u
HasPrintable(l) == \E n \in 1..Len(l) : l[n].k # "ctl" /\ l[n].k # "nl"

\* the entity replacements of a cleanup: &nbsp; becomes a space, &amp; an ampersand
Decode(t) ==
    [n \in 1..Len(t) |->
        CASE t[n] = Nbsp -> SP
          [] t[n] = Amp -> Ampersand
          [] OTHER -> t[n]]

\* the class [\x00-\x1F\x7F-\x9F], which holds the line feed
IsControl(ch) == ch.k \in {"ctl", "nl"}

\* cleanSubtitleContent(content); the empty text stands for null
cleanSubtitleContent(content) ==
    IF Trim(content) = << >> THEN << >>
    ELSE LET stripped == SelectSeq(Decode(content), LAMBDA ch : ~IsControl(ch))
             lines == Split(stripped)
             validLines == SelectSeq(lines, LAMBDA l :
                              Trim(l) # << >> /\ (HasTs(Trim(l)) \/ HasPrintable(Trim(l))))
             cleanedContent == Trim(Join(validLines))
             hasContent == \E n \in 1..Len(validLines) :
                              ~HasTs(validLines[n]) /\ HasPrintable(validLines[n])
         IN CASE cleanedContent = << >> -> << >>
              [] ~hasContent -> << >>
              [] Head(cleanedContent) # Header -> <<Header, NL, NL>> \o cleanedContent
              [] OTHER -> cleanedContent

\* the first index from n on of a line that is blank after trim, or Len + 1
RECURSIVE TextEnd(_, _)
TextEnd(ls, n) ==
    IF n > Len(ls) \/ Trim(ls[n]) = << >> THEN n ELSE TextEnd(ls, n + 1)

\* the index of the first line after the header and the blank lines before the cues
RECURSIVE SkipHeader(_, _)
SkipHeader(ls, n) ==
    IF n <= Len(ls) /\ ((ls[n] # << >> /\ Head(ls[n]) = Header) \/ Trim(ls[n]) = << >>)
    THEN SkipHeader(ls, n + 1) ELSE n

\* the cues the line loop of convertVttToSrt and extractTextFromVtt finds: a
\* timestamp line, then the lines up to the next blank line as its text; a
\* cue read from a text has the digits of its timestamps as start and end
RECURSIVE ReadLines(_, _)
ReadLines(ls, n) ==
    IF n > Len(ls) THEN << >>
    ELSE IF HasTs(ls[n])
    THEN LET e == TextEnd(ls, n + 1)
             text == Join([j \in 1..(e - n - 1) |-> Trim(ls[n + j])])
             ts == FirstTs(ls[n])
         IN (IF Trim(text) # << >>
             THEN <<[start |-> ts.a, end |-> ts.b, text |-> Trim(text)]>>
             ELSE << >>) \o ReadLines(ls, e + 1)
    ELSE ReadLines(ls, n + 1)

ReadCues(t) == LET ls == Split(t) IN ReadLines(ls, SkipHeader(ls, 1))

\* utils.js convertVttToSrt: the numbers written, in order
RECURSIVE SrtNumbers(_, _, _)
SrtNumbers(ls, n, subtitleIndex) ==
    IF n > Len(ls) THEN << >>
    ELSE IF HasTs(ls[n])
    THEN LET e == TextEnd(ls, n + 1) IN
           IF e > n + 1
           THEN <<subtitleIndex>> \o SrtNumbers(ls, e + 1, subtitleIndex + 1)
           ELSE SrtNumbers(ls, e + 1, subtitleIndex)
    ELSE SrtNumbers(ls, n + 1, subtitleIndex)

\* server.js convertVttToSrt: the index and the timestamp are written before
\* the text is read, and the index grows only when the text is not empty
RECURSIVE SrtNumbersServer(_, _, _)
SrtNumbersServer(ls, n, index) ==
    IF n > Len(ls) THEN << >>
    ELSE IF HasTs(ls[n])
    THEN LET e == TextEnd(ls, n + 1)
             subtitleText == \E j \in (n + 1)..(e - 1) : Trim(Decode(ls[j])) # << >>
         IN <<index>> \o SrtNumbersServer(ls, e, IF subtitleText THEN index + 1 ELSE index)
    ELSE SrtNumbersServer(ls, n + 1, index)

\* the number of characters a character of the model stands for
Width(ch) ==
    CASE ch.k = "ts" -> 29
      [] ch.k = "WEBVTT" -> 6
      [] ch.k = "&nbsp;" -> 6
      [] ch.k = "&amp;" -> 5
      [] OTHER -> 1

\* HOSTING_SETUP.md convertVttToSrt: the fourth argument of the replace
\* callback, named index, is the offset of the match in the text
RECURSIVE SrtNumbersHosting(_, _, _)
SrtNumbersHosting(t, n, offset) ==
    IF n > Len(t) THEN << >>
    ELSE (IF t[n].k = "ts" THEN <<offset + 1>> ELSE << >>)
            \o SrtNumbersHosting(t, n + 1, offset + Width(t[n]))

\* .replace(/WEBVTT\n\n/, '') on a text that begins with the header
DropHeader(t) ==
    IF Len(t) >= 3 /\ SubSeq(t, 1, 3) = <<Header, NL, NL>> THEN SubSeq(t, 4, Len(t)) ELSE t

CueInit ==
    /\ MainIdle
    /\ RetryIdle
    /\ TempIdle
    /\ EvictIdle
    /\ ProgIdle
    /\ LangIdle
    /\ FmtIdle
    /\ ExistIdle
    /\ cues \in CueLists
    /\ cfn = "none"
    /\ nums = << >>
    /\ doc = << >>
    /\ back = << >>
    /\ cend = [format |-> "none", rec |-> "none", file |-> FALSE]

\* utils.js: convertVttToSrt(vttText)
convertVttToSrt ==
    /\ cfn = "none"
    /\ cfn' = "convertVttToSrt"
    /\ LET ls == Split(VttText(cues)) IN nums' = SrtNumbers(ls, SkipHeader(ls, 1), 1)
    /\ UNCHANGED <<mainVars, fmtVars, existVars, retryVars, tempVars, evictVars, progVars, langVars, cues, doc, back, cend>>

\* server.js: convertVttToSrt(vttText)
convertVttToSrtServer ==
    /\ cfn = "none"
    /\ cfn' = "convertVttToSrtServer"
    /\ LET ls == Split(VttText(cues)) IN nums' = SrtNumbersServer(ls, SkipHeader(ls, 1), 1)
    /\ UNCHANGED <<mainVars, fmtVars, existVars, retryVars, tempVars, evictVars, progVars, langVars, cues, doc, back, cend>>

\* HOSTING_SETUP.md: convertVttToSrt(vttText)
convertVttToSrtHosting ==
    /\ cfn = "none"
    /\ cfn' = "convertVttToSrtHosting"
    /\ nums' = SrtNumbersHosting(DropHeader(VttText(cues)), 1, 0)
    /\ UNCHANGED <<mainVars, fmtVars, existVars, retryVars, tempVars, evictVars, progVars, langVars, cues, doc, back, cend>>

\* the cleanup of a downloaded VTT text (downloadSubtitleWithYtdlCore), and
\* the cues of the result
cleanDownloaded ==
    /\ cfn = "none"
    /\ cfn' = "cleanSubtitleContent"
    /\ doc' = cleanSubtitleContent(VttText(cues))
    /\ back' = ReadCues(doc')
    /\ UNCHANGED <<mainVars, fmtVars, existVars, retryVars, tempVars, evictVars, progVars, langVars, cues, nums, cend>>

\* downloadSubtitleWithNodeSubtitles: the cues are serialized with arrayToVtt
\* and the text is handed to cleanSubtitleContent
serializeAndClean ==
    /\ cfn = "none"
    /\ cfn' = "arrayToVtt"
    /\ doc' = cleanSubtitleContent(arrayToVtt(cues))
    /\ back' = ReadCues(doc')
    /\ UNCHANGED <<mainVars, fmtVars, existVars, retryVars, tempVars, evictVars, progVars, langVars, cues, nums, cend>>

\* downloadSubtitleWithRetry, the node-youtube-subtitles branch: the cues are
\* serialized with arrayToVtt and the text is returned as it is
serializeOnly ==
    /\ cfn = "none"
    /\ cfn' = "serialize"
    /\ doc' = arrayToVtt(cues)
    /\ back' = ReadCues(doc')
    /\ UNCHANGED <<mainVars, fmtVars, existVars, retryVars, tempVars, evictVars, progVars, langVars, cues, nums, cend>>

\* convertSubtitleFormat(content, format) returns a text (TRUE) or null
\* (FALSE); extractTextFromVtt counts the cues with the loop of convertVttToSrt
Converted(content, format) ==
    LET ls == Split(content)
    IN CASE Trim(content) = << >> -> FALSE
         [] format \in {"srt", "txt"} -> SrtNumbers(ls, SkipHeader(ls, 1), 1) # << >>
         [] format = "vtt" -> TRUE
         [] OTHER -> FALSE

\* handleDownloadSubtitle from the text yt-dlp has left in its file: the
\* conversion, writeFile and the record the request ends with
handleDownloadSubtitleConvert ==
    /\ cfn = "none"
    /\ cfn' = "convertSubtitleFormat"
    /\ \E format \in {"srt", "txt", "vtt"}, saved \in BOOLEAN :
         cend' = IF ~Converted(VttText(cues), format)
                 THEN [format |-> format, rec |-> "error", file |-> FALSE]
                 ELSE IF saved
                      THEN [format |-> format, rec |-> "completed", file |-> TRUE]
                      ELSE [format |-> format, rec |-> "error", file |-> FALSE]
    /\ UNCHANGED <<mainVars, fmtVars, existVars, retryVars, tempVars, evictVars, progVars, langVars, cues, nums, doc, back>>

CueNext ==
    \/ convertVttToSrt
    \/ convertVttToSrtServer
    \/ convertVttToSrtHosting
    \/ cleanDownloaded
    \/ serializeAndClean
    \/ serializeOnly
    \/ handleDownloadSubtitleConvert

CueSpec == CueInit /\ [][CueNext]_vars

\* ---------------------------------------------------------------- format selection
\* a format of info.formats: its qualityLabel ("" for an audio format, whose
\* quality is a bitrate), whether it holds video, audio, and is MP3
Format(label, v, a, mp3) == [label |-> label, hasVideo |-> v, hasAudio |-> a, mp3 |-> mp3]

Labels == {"1080p", "720p", "360p"}

Formats ==
    {Format(l, TRUE, a, FALSE) : l \in Labels, a \in BOOLEAN}
        \cup {Format("", FALSE, TRUE, mp3) : mp3 \in BOOLEAN}

FormatLists == UNION {[1..n -> Formats] : n \in 0..MaxFormats}

Qualities == {"high", "medium", "low"}

\* qualityMap of videoDownloader.js
QualityMap(quality) ==
    CASE quality = "medium" -> <<"720p", "480p">>
      [] quality = "low" -> <<"360p", "240p">>
      [] OTHER -> <<"1080p", "720p">>

\* qualityMap of server.js
QualityMapServer(quality) ==
    CASE quality = "medium" -> <<"720p", "480p", "360p">>
      [] quality = "low" -> <<"480p", "360p", "240p">>
      [] OTHER -> <<"1080p", "720p", "480p">>

\* formats.find(f => P(f)): the index of the first format of fs in the set
\* of indexes ok, 0 when there is none
Find(ok) == IF ok = {} THEN 0 ELSE CHOOSE n \in ok : \A m \in ok : n <= m

\* the type getAvailableFormats gives a format
TypeOf(f) == IF f.hasVideo THEN "video" ELSE "audio"

\* the loop over the preferred qualities of selectAvailableFormat
RECURSIVE PreferredFormat(_, _, _)
PreferredFormat(fs, qs, type) ==
    IF qs = << >> THEN 0
    ELSE LET format == Find({n \in 1..Len(fs) : fs[n].label = Head(qs) /\ TypeOf(fs[n]) = type})
         IN IF format # 0 THEN format ELSE PreferredFormat(fs, Tail(qs), type)

\* videoDownloader.js selectAvailableFormat: the index of the format whose
\* itag is returned, 0 for null
selectAvailableFormat(fs, quality, type) ==
    LET preferred == PreferredFormat(fs, QualityMap(quality), type)
        videoFormat == Find({n \in 1..Len(fs) : TypeOf(fs[n]) = "video"})
        audioFormat == Find({n \in 1..Len(fs) : TypeOf(fs[n]) = "audio"})
    IN CASE fs = << >> -> 0
         [] preferred # 0 -> preferred
         [] type = "video" /\ videoFormat # 0 -> videoFormat
         [] audioFormat # 0 -> audioFormat
         [] OTHER -> 1

\* the loop over the preferred qualities of server.js
RECURSIVE PreferredFormatServer(_, _)
PreferredFormatServer(fs, qs) ==
    IF qs = << >> THEN 0
    ELSE LET both == Find({n \in 1..Len(fs) :
                          fs[n].hasVideo /\ fs[n].hasAudio /\ fs[n].label = Head(qs)})
             video == Find({n \in 1..Len(fs) : fs[n].hasVideo /\ fs[n].label = Head(qs)})
         IN CASE both # 0 -> both
              [] video # 0 -> video
              [] OTHER -> PreferredFormatServer(fs, Tail(qs))

\* server.js downloadMediaWithYtdlCore: the index of selectedFormat, 0 when
\* the function throws for want of a format
SelectedFormatServer(fs, quality, type) ==
    IF type = "video"
    THEN LET preferred == PreferredFormatServer(fs, QualityMapServer(quality))
         IN IF preferred # 0 THEN preferred
            ELSE Find({n \in 1..Len(fs) : fs[n].hasVideo})
    ELSE LET mp3 == Find({n \in 1..Len(fs) :
                         fs[n].hasAudio /\ ~fs[n].hasVideo /\ fs[n].mp3})
         IN IF mp3 # 0 THEN mp3
            ELSE Find({n \in 1..Len(fs) : fs[n].hasAudio /\ ~fs[n].hasVideo})

FmtInit ==
    /\ MainIdle
    /\ RetryIdle
    /\ TempIdle
    /\ EvictIdle
    /\ ProgIdle
    /\ LangIdle
    /\ CueIdle
    /\ ExistIdle
    /\ fmts \in FormatLists
    /\ fquality \in Qualities
    /\ ftype \in {"video", "audio"}
    /\ fcode = "none"
    /\ fsel = 0

\* videoDownloader.js: selectAvailableFormat(videoUrl, quality, type)
selectFormat ==
    /\ fcode = "none"
    /\ fcode' = "videoDownloader"
    /\ fsel' = selectAvailableFormat(fmts, fquality, ftype)
    /\ UNCHANGED <<mainVars, retryVars, tempVars, evictVars, progVars, langVars, cueVars,
                   existVars, fmts, fquality, ftype>>

\* server.js: the format selection of downloadMediaWithYtdlCore
selectFormatServer ==
    /\ fcode = "none"
    /\ fcode' = "server"
    /\ fsel' = SelectedFormatServer(fmts, fquality, ftype)
    /\ UNCHANGED <<mainVars, retryVars, tempVars, evictVars, progVars, langVars, cueVars,
                   existVars, fmts, fquality, ftype>>

FmtNext ==
    \/ selectFormat
    \/ selectFormatServer

FmtSpec == FmtInit /\ [][FmtNext]_vars

\* ---------------------------------------------------------------------------
\* the existing-file short circuit of the media handlers: requests for the
\* same file name, and the file at the final output path
\* ---------------------------------------------------------------------------
ExistCodes == {"videoDownloader", "server", "part_001"}

ExistInit ==
    /\ MainIdle
    /\ RetryIdle
    /\ TempIdle
    /\ EvictIdle
    /\ ProgIdle
    /\ LangIdle
    /\ CueIdle
    /\ FmtIdle
    /\ xcode \in ExistCodes
    /\ xpc = [r \in SameReqs |-> "idle"]
    /\ xans = [r \in SameReqs |-> "none"]
    /\ xout \in {NoOut, [w |-> 0, st |-> "complete"]}

\* the final path after request r has stopped writing to it
Closed(r, st) ==
    IF \E q \in SameReqs \ {r} : xpc[q] \in {"write", "copy"} /\ xcode # "part_001"
        THEN [w |-> xout.w, st |-> "partial"]
        ELSE [w |-> r, st |-> st]

\* server.js: fsPromises.access(filePath) answers success for any file
existsServer(r) ==
    /\ xcode = "server"
    /\ xpc[r] = "idle"
    /\ IF xout.st # "absent"
          THEN /\ xpc' = [xpc EXCEPT ![r] = "done"]
               /\ xans' = [xans EXCEPT ![r] = "exists"]
          ELSE /\ xpc' = [xpc EXCEPT ![r] = "fetch"]
               /\ UNCHANGED xans
    /\ UNCHANGED <<mainVars, retryVars, tempVars, evictVars, progVars, langVars, cueVars,
                   fmtVars, xcode, xout>>

\* videoDownloader.js: access, stats.size and validateFile; an empty or
\* invalid file is unlinked and the request goes on
existsVideoDownloader(r) ==
    /\ xcode = "videoDownloader"
    /\ xpc[r] = "idle"
    /\ \E empty, valid \in BOOLEAN :
          /\ xout.st = "absent" => (empty /\ ~valid)
          /\ xout.st = "complete" => (~empty /\ valid)
          /\ IF xout.st # "absent" /\ ~empty /\ valid
                THEN /\ xpc' = [xpc EXCEPT ![r] = "done"]
                     /\ xans' = [xans EXCEPT ![r] = "exists"]
                     /\ UNCHANGED xout
                ELSE /\ xpc' = [xpc EXCEPT ![r] = "fetch"]
                     /\ xans' = [xans EXCEPT ![r] = "id"]
                     /\ xout' = NoOut
    /\ UNCHANGED <<mainVars, retryVars, tempVars, evictVars, progVars, langVars, cueVars,
                   fmtVars, xcode>>

\* part_001: fs.existsSync(finalFilePath)
existsPart001(r) ==
    /\ xcode = "part_001"
    /\ xpc[r] = "idle"
    /\ IF xout.st # "absent"
          THEN /\ xpc' = [xpc EXCEPT ![r] = "done"]
               /\ xans' = [xans EXCEPT ![r] = "exists"]
          ELSE /\ xpc' = [xpc EXCEPT ![r] = "fetch"]
               /\ UNCHANGED xans
    /\ UNCHANGED <<mainVars, retryVars, tempVars, evictVars, progVars, langVars, cueVars,
                   fmtVars, xcode, xout>>

\* the output is opened: fs.createWriteStream(filePath) in server.js,
\* ffmpeg().save(filePath) in videoDownloader.js, and
\* fs.createWriteStream(tempFilePath) in part_001
openOutput(r) ==
    /\ xpc[r] = "fetch"
    /\ xpc' = [xpc EXCEPT ![r] = "write"]
    /\ xout' = IF xcode = "part_001" THEN xout ELSE [w |-> r, st |-> "partial"]
    /\ UNCHANGED <<mainVars, retryVars, tempVars, evictVars, progVars, langVars, cueVars,
                   fmtVars, xcode, xans>>

\* the write ends: server.js unlinks the file on a stream error,
\* videoDownloader.js leaves what FFmpeg wrote, part_001 has its temp file
closeOutput(r) ==
    /\ xpc[r] = "write"
    /\ \E ok \in BOOLEAN :
          CASE xcode = "server" ->
                 /\ xpc' = [xpc EXCEPT ![r] = "done"]
                 /\ xans' = [xans EXCEPT ![r] = IF ok THEN "saved" ELSE "error"]
                 /\ xout' = IF ok THEN Closed(r, "complete") ELSE NoOut
            [] xcode = "videoDownloader" ->
                 /\ xpc' = [xpc EXCEPT ![r] = "done"]
                 /\ xout' = Closed(r, IF ok THEN "complete" ELSE "partial")
                 /\ UNCHANGED xans
            [] OTHER ->
                 /\ xpc' = [xpc EXCEPT ![r] = IF ok THEN "move" ELSE "done"]
                 /\ xans' = [xans EXCEPT ![r] = IF ok THEN @ ELSE "error"]
                 /\ UNCHANGED xout
    /\ UNCHANGED <<mainVars, retryVars, tempVars, evictVars, progVars, langVars, cueVars,
                   fmtVars, xcode>>

\* part_001: fsPromises.rename(tempFilePath, finalFilePath); when it throws,
\* fsPromises.copyFile starts to write the final path
moveTemp(r) ==
    /\ xcode = "part_001"
    /\ xpc[r] = "move"
    /\ \E renamed \in BOOLEAN :
          IF renamed
             THEN /\ xpc' = [xpc EXCEPT ![r] = "done"]
                  /\ xans' = [xans EXCEPT ![r] = "saved"]
                  /\ xout' = [w |-> r, st |-> "complete"]
             ELSE /\ xpc' = [xpc EXCEPT ![r] = "copy"]
                  /\ xout' = [w |-> r, st |-> "partial"]
                  /\ UNCHANGED xans
    /\ UNCHANGED <<mainVars, retryVars, tempVars, evictVars, progVars, langVars, cueVars,
                   fmtVars, xcode>>

\* part_001: copyFile has finished or has thrown
copyTemp(r) ==
    /\ xcode = "part_001"
    /\ xpc[r] = "copy"
    /\ \E ok \in BOOLEAN :
          /\ xpc' = [xpc EXCEPT ![r] = "done"]
          /\ xans' = [xans EXCEPT ![r] = IF ok THEN "saved" ELSE "error"]
          /\ xout' = IF \E q \in SameReqs \ {r} : xpc[q] = "copy"
                        THEN [w |-> xout.w, st |-> "partial"]
                        ELSE [w |-> r, st |-> IF ok THEN "complete" ELSE "partial"]
    /\ UNCHANGED <<mainVars, retryVars, tempVars, evictVars, progVars, langVars, cueVars,
                   fmtVars, xcode>>

ExistNext ==
    \E r \in SameReqs :
        \/ existsServer(r)
        \/ existsVideoDownloader(r)
        \/ existsPart001(r)
        \/ openOutput(r)
        \/ closeOutput(r)
        \/ moveTemp(r)
        \/ copyTemp(r)

ExistSpec == ExistInit /\ [][ExistNext]_vars

\* ---------------------------------------------------------------- properties
Running(r) == pc[r] \notin {"idle", "done"}

\* the server has ended the response of c (the client did not go away first)
ServerEnded(c) == conn[c].st \in {"ended", "closed"}

OnlyStreamOn(c) == \A d \in Conns \ {c} : conn[d].id # conn[c].id

\* C1: for a request of one of the request handlers, a client that keeps its
\* stream open (and neither cancels nor shares the downloadId with another
\* stream) has, once the server ends the stream, received a completed record
\* with a URL or an error record with a message
C1_TerminalReceived ==
    impl \in MediaImpls \cup SubImpls =>
        \A c \in Conns :
            (ServerEnded(c) /\ conn[c].id \notin cancelled /\ OnlyStreamOn(c))
                => IsTerminal(conn[c].last)

\* C2: a record that is completed or error is never written again (it may
\* only be removed)
C2_SingleTerminal ==
    [][\A id \in Reqs :
          IsTerminal(downloadProgress[id])
              => downloadProgress'[id] \in {downloadProgress[id], NoRec}]_vars

\* C3: the progress values a client receives on its stream never decrease,
\* except when the later record was written by a later strategy
C3_MonotonicProgress ==
    [][\A c \in Conns :
          (conn[c].last # NoRec /\ conn'[c].last.progress < conn[c].last.progress)
              => conn'[c].last.by > conn[c].last.by]_vars

\* C4: a connection on which a terminal record has been pushed is ended by the
\* server in the same step, and a connection that is no longer open receives
\* no further record
C4_ClosedAfterTerminal ==
    /\ [](\A c \in Conns : IsTerminal(conn[c].last) => conn[c].st # "open")
    /\ [][\A c \in Conns :
             conn[c].st \notin {"free", "open"} => conn'[c].last = conn[c].last]_vars

C4_Witness ==
    \E c \in Conns : conn[c].st = "ended" /\ IsTerminal(conn[c].last)

\* C5: the step in which a client disconnects changes nothing of any request
\* (its position, strategy, files, duplicate key): only the connection and
\* the store entry of its downloadId
C5_DisconnectKeepsAcquisition ==
    [][(\E c \in Conns : conn[c].st = "open" /\ conn'[c].st = "gone")
          => /\ UNCHANGED <<reqVars, file, activeSubtitleRequests>>
             /\ \A id \in Reqs :
                  downloadProgress'[id] # downloadProgress[id]
                      => \E c \in Conns : conn[c].id = id /\ conn'[c].st = "gone"]_vars

\* the only stream of request 1 was disconnected and the request then ran to
\* its completed record and its artifact
C5_Witness ==
    /\ \A c \in Conns : conn[c].st \in {"gone", "free"}
    /\ conn[1].st = "gone"
    /\ cancelled = {}
    /\ pc[1] = "done"
    /\ IsCompleted(downloadProgress[1])
    /\ file[key[1]] = "valid"

\* C6: once the cancel endpoint has removed the entry of a downloadId, the
\* store holds no entry for that downloadId again
C6_NoEntryAfterCancel ==
    \A id \in Reqs : id \in cancelled => downloadProgress[id] = NoRec

\* C7: every record that is in the store is eventually removed from it
C7_EventuallyRemoved ==
    \A id \in Reqs :
        (downloadProgress[id] # NoRec) ~> (downloadProgress[id] = NoRec)

\* C8 as stated: no step of the streaming endpoint changes the store
C8_EndpointReadOnly ==
    [][conn' # conn => downloadProgress' = downloadProgress]_vars

\* C8: a step of the streaming endpoint never creates or updates an entry; it
\* can only remove the entry of the downloadId of a connection it ends or
\* whose close event it handles
C8_EndpointOnlyRemoves ==
    [][conn' # conn =>
          \A id \in Reqs :
              downloadProgress'[id] # downloadProgress[id]
                  => /\ downloadProgress'[id] = NoRec
                     /\ \E c \in Conns :
                          /\ conn'[c].id = id
                          /\ conn'[c] # conn[c]
                          /\ conn'[c].st \in {"ended", "gone", "closed"}]_vars

C8_Witness ==
    \E c \in Conns :
        /\ conn[c].st = "ended"
        /\ IsTerminal(conn[c].last)
        /\ downloadProgress[conn[c].id] = NoRec
        /\ pc[conn[c].id] = "done"

\* a strategy of request r is in flight
Attempting(r) == Running(r) /\ invoked[r] > 0

\* C9: at most one subtitle acquisition per key is in flight at any time
C9_OneAcquisitionPerKey ==
    impl \in SubImpls =>
        \A r1, r2 \in Reqs :
            (r1 # r2 /\ Attempting(r1) /\ Attempting(r2)) => key[r1] # key[r2]

\* C10: no request invokes its first strategy while its target artifact is on
\* disk, non-empty and valid (before and after the step)
C10_NoStrategyWhenArtifactExists ==
    [][\A r \in Reqs :
          (invoked[r] = 0 /\ invoked'[r] = 1)
              => ~(file[key'[r]] = "valid" /\ file'[key'[r]] = "valid")]_vars

\* C11: no call is made more than 3 times by one invocation of a retry helper
\* (every underlying call counted, those of a nested helper included)
C11_AtMostThreeAttempts ==
    \A op \in Ops : calls[op] <= 3

\* delays that start at 1 second and double, up to some cap of at least 2 seconds
ExponentialBackoff(s) ==
    Len(s) > 0 =>
        /\ s[1] = 1000
        /\ \E cap \in {2000, 4000, 8000, 10000, 16000} :
             \A k \in 2..Len(s) : s[k] = Min(2 * s[k - 1], cap)

\* C12: the delays each retry loop has waited start at 1 second and double
\* from one retry to the next, up to a cap
C12_ExponentialBackoff ==
    \A l \in Loops : ExponentialBackoff(delays[l])

Last(q) == q[Len(q)]

C14_FatalAborts ==
    [][\A r \in Reqs :
          (results'[r] # results[r] /\ Last(results'[r]) = "Fatal")
              => /\ invoked'[r] = invoked[r]
                 /\ pc'[r] = "done"
                 /\ IsError(downloadProgress'[r])]_vars

\* C15: the step in which the last strategy of the chain fails writes an error
\* record whose message carries the reason of that last strategy
C15_LastReasonNamed ==
    [][\A r \in Reqs :
          (/\ impl # "core"
           /\ results'[r] # results[r]
           /\ Last(results'[r]) # "Success"
           /\ Len(results'[r]) = NumStrategies(impl))
              => /\ IsError(downloadProgress'[r])
                 /\ downloadProgress'[r].reason = NumStrategies(impl)]_vars

C18_CanonicalOrder ==
    impl \in SubImpls =>
        \A r \in Reqs :
            strat[r] > 0 =>
                StrategyOrder(impl)[strat[r]] =
                    <<"yt-dlp", "ytdl-core", "node-youtube-subtitles", "youtube-api">>[strat[r]]

\* C17: at most one stream of a strategy attempt of the request is alive
C17_OneAttemptAtATime ==
    live <= 1

\* a request is between the start of its tool and the end of its use of the temp file
UsesTemp(r) == tpc[r] \in {"tool", "access", "read", "unlink"}

\* C19: two requests that use a temp file at the same time use different paths
C19_UniqueTempPaths ==
    \A r1, r2 \in TempReqs :
        (r1 # r2 /\ UsesTemp(r1) /\ UsesTemp(r2))
            => TempPath(tcode, tkey[r1]) # TempPath(tcode, tkey[r2])

\* C20: a request whose key differs from the key of every other request reads
\* back what its own tool wrote, or nothing: never another request's
\* content, and never a failure
C20_IndependentKeys ==
    \A r \in TempReqs :
        (\A q \in TempReqs \ {r} : tkey[q] # tkey[r])
            => got[r] \in {NoFile, Content(tcode, tkey[r])}

\* the other requests have not started: what is in the temp directory is
\* this request's own doing
Alone(r) == \A q \in TempReqs \ {r} : tpc[q] = "idle"

\* C21: once a strategy attempt has ended without success, the temp file it
\* created no longer exists
C21_NoPartialArtifacts ==
    \A r \in TempReqs :
        (Alone(r) /\ tpc[r] = "done" /\ tout[r] \in {"nothing", "failed"})
            => tmp[TempPath(tcode, tkey[r])] = NoFile

\* C22: once a post-processing operation has ended, with success or with
\* failure, its temp inputs no longer exist
C22_TempInputsDeleted ==
    \A r \in TempReqs :
        (Alone(r) /\ tpc[r] = "done" /\ post[r] # "none")
            => tmp[TempPath(tcode, tkey[r])] = NoFile

\* the file the downloadUrl of a record of request r names
ResultFile(r) == file[key[r]]

\* C23: whenever a completed record is written, the file its downloadUrl
\* names is on disk, complete and non-empty
C23_CompletedArtifactExists ==
    [][\A r \in Reqs :
          (IsCompleted(downloadProgress'[r]) /\ downloadProgress'[r] # downloadProgress[r])
              => ResultFile(r)' = "valid"]_vars

\* C24: no error of a stream ends the process: the helper never stops on an
\* exception thrown out of an event listener
C24_NoCrash == hpc # "crashed"

\* C25: after a pass of cleanFolder the directory holds at most MaxFiles
\* files, and every file the pass removed is older than every file it kept
C25_LatestNKept ==
    [][\A r \in TempReqs :
          (epc[r] = "idle" /\ epc'[r] = "cleaned")
              => /\ Cardinality(dir') <= MaxFiles
                 /\ \A f \in dir \ dir' : \A g \in dir' : f < g]_vars

\* C26: every progress value that is stored is a whole number of percent
\* between 0 and 100
C26_IntegerPercent ==
    written # -1 => (written % 10 = 0 /\ written >= 0 /\ written <= 1000)

\* C27: a request for a language the source does not offer, while it offers
\* others, ends with an error whose text lists the offered languages (the
\* error record of the store, or the HTTP error answer of a handler that
\* checks before it creates a record)
C27_MissingLanguageListed ==
    (lpc = "done" /\ want \notin manual \cup auto /\ manual \cup auto # {})
        => /\ lrec.kind \in {"error", "http404"}
           /\ lrec.text = "notFound"
           /\ lrec.langs = manual \cup auto

\* C28: the numbers an SRT conversion writes are 1, 2, 3, ... in this order,
\* whatever cues were dropped as empty
C28_SrtNumbersContiguous ==
    cfn \in {"convertVttToSrt", "convertVttToSrtServer", "convertVttToSrtHosting"}
        => \A n \in 1..Len(nums) : nums[n] = n

\* the cues as a text shows them: start and end as the digits of msToTime
Printed(cs) ==
    [n \in 1..Len(cs) |->
        [start |-> msToTime(cs[n].start), end |-> msToTime(cs[n].end), text |-> cs[n].text]]

\* every cue has a text that no cleanup changes
WellFormed(cs) == \A n \in 1..Len(cs) : cs[n].text = <<Letter>>

\* C29: well-formed cues that are serialized to VTT and read again are the
\* same cues: same number, same text, same start and end in milliseconds
C29_VttRoundTrip ==
    (cfn = "arrayToVtt" /\ WellFormed(cues)) => back = Printed(cues)

\* the text is made of HTML entities, control characters and spaces only
OnlyEntities(t) == \A n \in 1..Len(t) : t[n].k \in {"&nbsp;", "&amp;", "ctl", "sp"}

\* C30: in the text a download hands on, cleaned or serialized, the cues
\* whose text was made of HTML entities and control characters only are gone,
\* and the others are the cues of the result
C30_EntityOnlyCuesDropped ==
    cfn \in {"cleanSubtitleContent", "serialize"}
        => back = Printed(SelectSeq(cues, LAMBDA cue : ~OnlyEntities(cue.text)))

\* the text of a cue after the cleanup: entities replaced, control characters
\* removed, trimmed
Cleaned(t) == Trim(SelectSeq(Decode(t), LAMBDA ch : ~IsControl(ch)))

\* C31: a request whose subtitle text has no cue with a text left after the
\* cleanup ends with an error record and writes no artifact file
C31_NoCuesNoArtifact ==
    (cfn = "convertSubtitleFormat" /\ \A n \in 1..Len(cues) : Cleaned(cues[n].text) = << >>)
        => (cend.rec = "error" /\ ~cend.file)

\* the labels that are acceptable for the requested quality in the code that selects
Acceptable == IF fcode = "server" THEN QualityMapServer(fquality) ELSE QualityMap(fquality)

\* the first acceptable label that a format with video has (0 when none has one)
FirstLabel ==
    Find({n \in 1..Len(Acceptable) :
            \E m \in 1..Len(fmts) : fmts[m].hasVideo /\ fmts[m].label = Acceptable[n]})

\* C32: for a video request, a format with the first acceptable label that is
\* on offer is selected; when no format has an acceptable label, a format
\* with audio and video if there is one, else a format with video; the
\* selection fails only when no format has video, and never yields a format
\* without video
C32_QualityTierSelection ==
    (fcode # "none" /\ ftype = "video") =>
        LET video == {n \in 1..Len(fmts) : fmts[n].hasVideo}
            both == {n \in video : fmts[n].hasAudio}
        IN CASE FirstLabel # 0 ->
                  fsel \in video /\ fmts[fsel].label = Acceptable[FirstLabel]
             [] both # {} -> fsel \in both
             [] video # {} -> fsel \in video
             [] OTHER -> fsel = 0

\* C33: for a request of downloadSubtitleWithYtdlCore, the step in which the
\* server ends an open stream (that is the only stream of its downloadId,
\* which was not cancelled) pushes a completed or error record on it
C33_EndedOnlyAfterTerminal ==
    [][impl = "core" =>
          \A c \in Conns :
              (conn[c].st = "open" /\ conn'[c].st = "ended"
                 /\ conn[c].id \notin cancelled /\ OnlyStreamOn(c))
                  => IsTerminal(conn'[c].last)]_vars

\* C34: res.write is never called on a response after res.end
C34_NoWriteAfterEnd ==
    \A c \in Conns : ~conn[c].wae

\* C36: when one of two streams on the same downloadId has received a
\* terminal record, the other is not ended by the server without one
C36_BothObserversTerminal ==
    \A c, d \in Conns :
        (c # d /\ conn[c].id = conn[d].id /\ conn[c].id \notin cancelled
           /\ IsTerminal(conn[c].last) /\ ServerEnded(d))
            => IsTerminal(conn[d].last)

\* request r of part_000 was accepted and has not reached its terminal record
Processing(r) == resp[r] = "id" /\ Running(r)

\* C38: in part_000 a request key is in activeSubtitleRequests exactly while
\* an accepted request with that key is being processed, and a request is
\* rejected as a duplicate only while another request with its key is
\* being processed
C38_KeyHeldWhileProcessing ==
    /\ [](impl = "sub0" =>
            \A k \in Keys :
                k \in activeSubtitleRequests <=> \E r \in Reqs : key[r] = k /\ Processing(r))
    /\ [][impl = "sub0" =>
            \A r \in Reqs :
                (resp[r] = "none" /\ resp'[r] = "dup")
                    => \E q \in Reqs \ {r} : key[q] = key'[r] /\ Processing(q)]_vars

\* request 1 has ended with a terminal record and released its key; request
\* 2, with the same key, was accepted after that and is being processed
C38_Witness ==
    /\ impl = "sub0"
    /\ pc[1] = "done"
    /\ IsTerminal(downloadProgress[1])
    /\ key[2] = key[1]
    /\ Processing(2)
    /\ key[2] \in activeSubtitleRequests

\* C39: the store holds no record of a request that was rejected as a duplicate
C39_NoRecordForDuplicate ==
    \A r \in Reqs : resp[r] = "dup" => downloadProgress[r] = NoRec

\* C40: a record whose stage is completed carries a downloadUrl and no error text
C40_CompletedHasUrlNoError ==
    \A id \in Reqs :
        downloadProgress[id].stage = "completed"
            => (downloadProgress[id].url /\ ~downloadProgress[id].error)

\* C35: the step in which the client disconnects, and the step in which the
\* interval finds the record absent, clear the interval; the interval of a
\* stream that has ended in any way is eventually cleared
C35_TimerEventuallyCleared ==
    /\ [][\A c \in Conns :
             (conn[c].st = "open" /\ conn'[c].st # "open"
                /\ (conn'[c].st = "gone" \/ getDownloadProgress(conn[c].id) = NoRec))
                 => ~conn'[c].timer]_vars
    /\ \A c \in Conns :
          (conn[c].st \in {"ended", "gone", "closed"}) ~> ~conn[c].timer

\* the server has ended one stream after a terminal record, its interval
\* still set, and a client has left another stream
C35_Witness ==
    \E c, d \in Conns :
        /\ conn[c].st = "ended" /\ conn[c].timer /\ IsTerminal(conn[c].last)
        /\ conn[d].st = "gone"

\* C37: a request is answered "the file exists" only when the file at the
\* final output path is complete, never while a request for the same file
\* name is still writing it
C37_ExistsOnlyWhenComplete ==
    [][\A r \in SameReqs :
          (xans[r] = "none" /\ xans'[r] = "exists") => xout.st = "complete"]_vars

====
